---------------------------- MODULE Spec2Model ----------------------------
(***************************************************************************)
(* Model of the patent lifecycle and discovery engine:                     *)
(*   - the term calculator     (src/src/pipeline/expiration_calc.py)       *)
(*   - hybrid search / RRF     (src/src/ai/search_service.py)              *)
(*   - white-space analytics   (src/src/services/whitespace_service.py)    *)
(*   - citation graph walker   (src/src/services/citation_service.py)      *)
(*   - normalizer and store    (src/src/pipeline/patent_store.py)          *)
(*   - rate limiter            (src/src/utils/rate_limiter.py)             *)
(*   - ingestion jobs          (src/src/api/routes/ingestion.py,           *)
(*                              src/src/pipeline/orchestrator.py)          *)
(*                                                                         *)
(* Dates are day ordinals (integers); date + timedelta(days=n) is integer  *)
(* addition.  An optional value (Python None or a value) is the empty set  *)
(* or a singleton set.                                                     *)
(***************************************************************************)
EXTENDS Integers, Sequences, FiniteSets, TLC

VARIABLES
    today,      \* date.today() as seen by the term calculator
    tcall,      \* the term-calculator call made last: [op, args...]
    tret        \* what that call returned

termVars == <<today, tcall, tret>>

VARIABLES
    ftOrder,    \* patent store: the patents in full-text relevance order
    semOrder,   \* patent store: the patents in embedding-distance order
    embedded,   \* patent store: the patents whose embedding is not null
    scall,      \* the search call made last: [op, query, filters, page, ...]
    sret,       \* what it returned: [results, total]
    slog,       \* the calls it issued to its collaborators, in order
    slocals     \* hybrid_search's locals when it returned

searchVars == <<ftOrder, semOrder, embedded, scall, sret, slog, slocals>>

VARIABLES
    wcall,      \* the white-space service call made last
    wret        \* what it returned

wsVars == <<wcall, wret>>

VARIABLES
    citations,  \* patent store: the rows of the citations table, in table order
    ccall,      \* the get_citation_network call in progress
    cpc,        \* where that call is: idle, level, patent, forward, backward, done
    walk,       \* its locals: nodes, edges, edge_set, visited, the levels, the rows
    cret        \* what it returned

citVars == <<citations, ccall, cpc, walk, cret>>

VARIABLES
    patents,    \* patent store: the rows of the patents table, by patent_number
    stcall,     \* the store_patent_batch call made last
    stret       \* what it returned

storeVars == <<patents, stcall, stret>>

VARIABLES
    clock,      \* time.monotonic()
    limiter,    \* the RateLimiter: max_requests, time_window, _timestamps
    lock,       \* asyncio.Lock: the callers holding or awaiting it, in order
    lpc,        \* where each caller of acquire() is
    lnow,       \* each caller's local "now"
    lwake,      \* the time each sleeping caller's sleep is over
    completed   \* the times at which acquire() calls completed, in order

limVars == <<clock, limiter, lock, lpc, lnow, lwake, completed>>

VARIABLES
    jobs,       \* the rows of the ingestion_jobs table, by id
    reqs,       \* where each trigger_ingestion request is, and its locals
    tasks       \* the ingest_patents_task runs, by Celery task id

ingVars == <<jobs, reqs, tasks>>

vars == <<termVars, searchVars, wsVars, citVars, storeVars, limVars, ingVars>>

\* what an operation of one component leaves alone
nonTermVars == <<searchVars, wsVars, citVars, storeVars, limVars, ingVars>>

nonSearchVars == <<termVars, wsVars, citVars, storeVars, limVars, ingVars>>

nonWsVars == <<termVars, searchVars, citVars, storeVars, limVars, ingVars>>

nonCitVars == <<termVars, searchVars, wsVars, storeVars, limVars, ingVars>>

\* store_patent_batch writes the patents and the citations tables
nonStoreVars == <<termVars, searchVars, wsVars, ccall, cpc, walk, cret, limVars, ingVars>>

nonLimVars == <<termVars, searchVars, wsVars, citVars, storeVars, ingVars>>

---------------------------------------------------------------------------
(* Optional values *)

None == {}

Some(x) == {x}

IsNone(o) == o = {}

Val(o) == CHOOSE x \in o : TRUE

Option(S) == {None} \union {Some(x) : x \in S}

Max(a, b) == IF a >= b THEN a ELSE b

---------------------------------------------------------------------------
(* Term calculator: src/src/pipeline/expiration_calc.py *)

STANDARD_TERM_YEARS == 20

DESIGN_TERM_YEARS == 15

GRACE_PERIOD_MONTHS == 6

\* MAINTENANCE_FEE_YEARS = [3.5, 7.5, 11.5], held in half years
MAINTENANCE_FEE_YEARS == <<7, 15, 23>>

\* str.lower() on the patent-type strings the model draws from
Lower(s) ==
    CASE s = "DESIGN"  -> "design"
      [] s = "Design"  -> "design"
      [] s = "DES"     -> "des"
      [] s = "Utility" -> "utility"
      [] OTHER         -> s

\* (patent_type or "").lower()
PatentTypeLower(patent_type) ==
    IF IsNone(patent_type) THEN "" ELSE Lower(Val(patent_type))

\* mutant: the adjustment is added whatever its sign
AddDaysAlways(base, days) == base + days

\* the two "if x_days > 0: base_expiration += timedelta(days=x_days)" steps
AddDaysIfPositive(base, days) == IF days > 0 THEN base + days ELSE base

\* the terminal-disclaimer step at the end of calculate_expiration_date
ApplyTerminalDisclaimer(base_expiration, terminal_disclaimer_date) ==
    IF ~IsNone(terminal_disclaimer_date)
       /\ Val(terminal_disclaimer_date) < base_expiration
    THEN terminal_disclaimer_date
    ELSE Some(base_expiration)

\* mutant: the design branch takes the 20-year term
DesignExpirationStandardTerm(grant_date) ==
    IF IsNone(grant_date)
    THEN None
    ELSE Some(Val(grant_date) + STANDARD_TERM_YEARS * 365)

\* mutant: the design term counts the leap days of fifteen calendar years
DesignExpirationCalendarYears(grant_date) ==
    IF IsNone(grant_date)
    THEN None
    ELSE Some(Val(grant_date) + (DESIGN_TERM_YEARS * 36525) \div 100)

\* the design branch: 15 flat years from grant, nothing else looked at
DesignExpiration(grant_date) ==
    IF IsNone(grant_date)
    THEN None
    ELSE Some(Val(grant_date) + DESIGN_TERM_YEARS * 365)

\* mutant: the estimated filing date is two years before the grant
BaseExpirationTwoYears(filing_date, grant_date) ==
    IF IsNone(filing_date)
    THEN (Val(grant_date) - 2 * 365) + STANDARD_TERM_YEARS * 365
    ELSE Val(filing_date) + STANDARD_TERM_YEARS * 365

\* the base of the utility/plant branch: 20 flat years from filing, the
\* filing date estimated as grant - 3*365 when absent
BaseExpiration(filing_date, grant_date) ==
    IF IsNone(filing_date)
    THEN (Val(grant_date) - 3 * 365) + STANDARD_TERM_YEARS * 365
    ELSE Val(filing_date) + STANDARD_TERM_YEARS * 365

calculate_expiration_date(filing_date, grant_date, patent_type, pta_days, pte_days, terminal_disclaimer_date) ==
    IF IsNone(filing_date) /\ IsNone(grant_date)
    THEN None
    ELSE IF PatentTypeLower(patent_type) \in {"design", "des"}
    THEN DesignExpiration(grant_date)
    ELSE ApplyTerminalDisclaimer(
             AddDaysIfPositive(
                 AddDaysIfPositive(BaseExpiration(filing_date, grant_date),
                                   pta_days),
                 pte_days),
             terminal_disclaimer_date)

\* int(year_offset * 365.25), year_offset = half_years / 2
DueOffsetDays(half_years) == (half_years * 36525) \div 200

\* mutant: the grace period is rounded to the nearest day instead of truncated
GracePeriodDaysRounded == (GRACE_PERIOD_MONTHS * 3044 + 50) \div 100

\* int(GRACE_PERIOD_MONTHS * 30.44)
GracePeriodDays == (GRACE_PERIOD_MONTHS * 3044) \div 100

\* mutant: the fee year is rounded (4, 8, 12) instead of truncated
FeeWindowRoundedYear(grant, half_years) ==
    LET due_date == grant + DueOffsetDays(half_years)
    IN  [ fee_year         |-> (half_years + 1) \div 2,
          due_date         |-> due_date,
          grace_period_end |-> due_date + GracePeriodDays,
          window_open      |-> due_date - 180 ]

\* one fee window of calculate_maintenance_fee_dates
FeeWindow(grant, half_years) ==
    LET due_date == grant + DueOffsetDays(half_years)
    IN  [ fee_year         |-> half_years \div 2,
          due_date         |-> due_date,
          grace_period_end |-> due_date + GracePeriodDays,
          window_open      |-> due_date - 180 ]

calculate_maintenance_fee_dates(grant_date) ==
    IF IsNone(grant_date)
    THEN << >>
    ELSE [ i \in 1..Len(MAINTENANCE_FEE_YEARS) |->
             FeeWindow(Val(grant_date), MAINTENANCE_FEE_YEARS[i]) ]

\* the maintenance-fee loop of determine_patent_status
HasLapsedFee(now, fee_schedule, maintenance_fees_paid) ==
    \E i \in 1..Len(fee_schedule) :
        /\ now > fee_schedule[i].grace_period_end
        /\ fee_schedule[i].fee_year \notin maintenance_fees_paid

\* mutant: the maintenance fees are looked at before the expiration date
determine_patent_status_LapseFirst(now, expiration_date, maintenance_fees_paid, grant_date) ==
    IF IsNone(expiration_date) THEN "unknown"
    ELSE IF ~IsNone(grant_date) /\ ~IsNone(maintenance_fees_paid)
            /\ HasLapsedFee(now, calculate_maintenance_fee_dates(grant_date),
                            Val(maintenance_fees_paid))
    THEN "lapsed"
    ELSE IF now > Val(expiration_date) THEN "expired"
    ELSE "active"

\* mutant: an empty list of paid fee years is treated as not provided
determine_patent_status_EmptyAsMissing(now, expiration_date, maintenance_fees_paid, grant_date) ==
    IF IsNone(expiration_date) THEN "unknown"
    ELSE IF now > Val(expiration_date) THEN "expired"
    ELSE IF ~IsNone(grant_date) /\ ~IsNone(maintenance_fees_paid)
            /\ Val(maintenance_fees_paid) # {}
            /\ HasLapsedFee(now, calculate_maintenance_fee_dates(grant_date),
                            Val(maintenance_fees_paid))
    THEN "lapsed"
    ELSE "active"

determine_patent_status(now, expiration_date, maintenance_fees_paid, grant_date) ==
    IF IsNone(expiration_date) THEN "unknown"
    ELSE IF now > Val(expiration_date) THEN "expired"
    ELSE IF ~IsNone(grant_date) /\ ~IsNone(maintenance_fees_paid)
            /\ HasLapsedFee(now, calculate_maintenance_fee_dates(grant_date),
                            Val(maintenance_fees_paid))
    THEN "lapsed"
    ELSE "active"

days_until_expiration(now, expiration_date) ==
    IF IsNone(expiration_date)
    THEN None
    ELSE Some(Val(expiration_date) - now)

\* datetime.date: the proleptic Gregorian calendar, a date being the
\* ordinal date.toordinal() gives it (day 1 is 0001-01-01)
IsLeapYear(year) == year % 4 = 0 /\ (year % 100 # 0 \/ year % 400 = 0)

\* the days before January 1st of the year
DaysBeforeYear(year) ==
    LET y == year - 1 IN y * 365 + y \div 4 - y \div 100 + y \div 400

DaysInMonth(year, month) ==
    IF month = 2 THEN (IF IsLeapYear(year) THEN 29 ELSE 28)
    ELSE IF month \in {4, 6, 9, 11} THEN 30
    ELSE 31

RECURSIVE DaysBeforeMonth(_, _)
DaysBeforeMonth(year, month) ==
    IF month = 1 THEN 0
    ELSE DaysBeforeMonth(year, month - 1) + DaysInMonth(year, month - 1)

\* date(year, month, day)
Date(year, month, day) == DaysBeforeYear(year) + DaysBeforeMonth(year, month) + day

\* the year, month and day of a date
YearMonthDay(ordinal) ==
    LET year  == CHOOSE y \in (ordinal \div 366)..(ordinal \div 365 + 1) :
                     DaysBeforeYear(y) < ordinal /\ ordinal <= DaysBeforeYear(y + 1)
        yday  == ordinal - DaysBeforeYear(year)
        month == CHOOSE m \in 1..12 :
                     /\ DaysBeforeMonth(year, m) < yday
                     /\ yday <= DaysBeforeMonth(year, m) + DaysInMonth(year, m)
    IN  <<year, month, yday - DaysBeforeMonth(year, month)>>

---------------------------------------------------------------------------
(* Search service: src/src/ai/search_service.py *)

\* The corpus of the model: four patents, their country and the words a
\* substring match on title/abstract/number/assignee would find.
Patents == {"US-001", "US-002", "US-003", "EP-004"}

Country(p) == IF p = "EP-004" THEN "EP" ELSE "US"

Words(p) ==
    CASE p = "US-001" -> {"battery"}
      [] p = "US-002" -> {"battery", "solar"}
      [] p = "US-003" -> {"battery"}
      [] OTHER        -> {"battery", "solar"}

Min(a, b) == IF a <= b THEN a ELSE b

\* 0-indexed position of patent p in a list of patent numbers, -1 if absent
RECURSIVE IndexFrom(_, _, _)
IndexFrom(seq, p, i) ==
    IF i > Len(seq) THEN -1
    ELSE IF seq[i] = p THEN i - 1
    ELSE IndexFrom(seq, p, i + 1)

IndexOf(seq, p) == IndexFrom(seq, p, 1)

\* rows[offset : offset + limit] / OFFSET offset LIMIT limit
Slice(rows, offset, limit) == SubSeq(rows, offset + 1, Min(offset + limit, Len(rows)))

\* _apply_filters: the structured filters (here the country filter); a null
\* or empty filter dict leaves the query as it is
ApplyFilters(rows, filters) ==
    LET Passes(p) == IsNone(filters) \/ Country(p) = Val(filters)
    IN  SelectSeq(rows, Passes)

\* the ILIKE search condition of fulltext_search
SearchCondition(rows, query) ==
    LET Matches(p) == query \in Words(p)
    IN  SelectSeq(rows, Matches)

\* The store's scores, in units of 1/10000.  Their values belong to the
\* database; the model only needs them to fall with the position in the
\* store's order.
StoreScore(order, p) == 10000 - 2000 * IndexOf(order, p)

\* _patent_to_result, reduced to the fields the fusion reads or writes
PatentToResult(p, relevance_score) ==
    [patent_number |-> p, relevance_score |-> relevance_score]

fulltext_search(order, query, filters, page, per_page) ==
    LET offset  == (page - 1) * per_page
        matched == ApplyFilters(SearchCondition(order, query), filters)
        rows    == Slice(matched, offset, per_page)
    IN  [ results |-> [ i \in 1..Len(rows) |->
                          PatentToResult(rows[i], StoreScore(order, rows[i])) ],
          total   |-> Len(matched) ]

semantic_search(order, emb, query, filters, page, per_page) ==
    LET offset     == (page - 1) * per_page
        HasEmb(p)  == p \in emb
        with_emb   == SelectSeq(order, HasEmb)
        base       == ApplyFilters(with_emb, filters)
        total      == IF IsNone(filters) THEN Len(with_emb) ELSE Len(base)
        rows       == Slice(base, offset, per_page)
    IN  [ results |-> [ i \in 1..Len(rows) |->
                          PatentToResult(rows[i], Max(0, StoreScore(order, rows[i]))) ],
          total   |-> total ]

\* k = 60, the RRF constant
RRF_K == 60

\* semantic_weight is held in tenths: 6 is 0.6
WeightUnit == 10

RECURSIVE Gcd(_, _)
Gcd(a, b) == IF b = 0 THEN a ELSE Gcd(b, a % b)

RECURSIVE LcmUpTo(_)
LcmUpTo(n) ==
    IF n = 0 THEN 1
    ELSE LET rest == LcmUpTo(n - 1)
             d    == RRF_K + n
         IN  (rest \div Gcd(rest, d)) * d

\* Fused scores are exact fractions, held as integer multiples of
\* 1 / (WeightUnit * ScoreUnit); ScoreUnit is the least common multiple of
\* the denominators k + rank + 1 a list of the corpus can produce.
ScoreUnit == LcmUpTo(Cardinality(Patents))

\* weight / (k + rank + 1)
Contribution(weight, rank) == weight * (ScoreUnit \div (RRF_K + rank + 1))

\* rrf_scores as a dict: the keys in insertion order and their scores
EmptyScores == [keys |-> << >>, score |-> << >>]

ScoreGet(scores, p) == IF p \in DOMAIN scores.score THEN scores.score[p] ELSE 0

ScorePut(scores, p, v) ==
    [ keys  |-> IF p \in DOMAIN scores.score THEN scores.keys
                ELSE Append(scores.keys, p),
      score |-> [ x \in DOMAIN scores.score \union {p} |->
                    IF x = p THEN v ELSE scores.score[x] ] ]

\* mutant: a patent found again replaces its score instead of adding to it
RECURSIVE AccumulateOverwrite(_, _, _, _)
AccumulateOverwrite(scores, results, weight, rank) ==
    IF rank >= Len(results) THEN scores
    ELSE LET patent_num == results[rank + 1].patent_number
         IN  AccumulateOverwrite(
                 ScorePut(scores, patent_num, Contribution(weight, rank)),
                 results, weight, rank + 1)

\* one "for rank, result in enumerate(results)" loop of the fusion
RECURSIVE Accumulate(_, _, _, _)
Accumulate(scores, results, weight, rank) ==
    IF rank >= Len(results) THEN scores
    ELSE LET patent_num == results[rank + 1].patent_number
         IN  Accumulate(
                 ScorePut(scores, patent_num,
                          ScoreGet(scores, patent_num) + Contribution(weight, rank)),
                 results, weight, rank + 1)

\* both loops: the full-text list with 1 - semantic_weight, then the
\* semantic list with semantic_weight
RRFScores(fulltext_results, semantic_results, semantic_weight) ==
    Accumulate(
        Accumulate(EmptyScores, fulltext_results, WeightUnit - semantic_weight, 0),
        semantic_results, semantic_weight, 0)

\* sorted(rrf_scores.items(), key=score, reverse=True): a stable sort, so
\* patents of equal score stay in insertion order
RECURSIVE SortedFrom(_, _, _)
SortedFrom(scores, sorted, i) ==
    IF i > Len(scores.keys) THEN sorted
    ELSE LET p      == scores.keys[i]
             ahead  == Cardinality({ j \in 1..Len(sorted) :
                                       scores.score[sorted[j]] >= scores.score[p] })
         IN  SortedFrom(scores,
                        SubSeq(sorted, 1, ahead) \o <<p>>
                            \o SubSeq(sorted, ahead + 1, Len(sorted)),
                        i + 1)

\* mutant: the patents stay in the order they were first seen
SortedPatentsInsertionOrder(scores) == scores.keys

SortedPatents(scores) == SortedFrom(scores, << >>, 1)

\* floor(num * 10^digits / den) and the remainder, by long division
RECURSIVE LongDiv(_, _, _)
LongDiv(num, den, digits) ==
    IF digits = 0 THEN [q |-> num \div den, r |-> num % den]
    ELSE LET prev == LongDiv(num, den, digits - 1)
         IN  [q |-> prev.q * 10 + (prev.r * 10) \div den, r |-> (prev.r * 10) % den]

\* round(score / max_rrf, 4) if max_rrf > 0 else 0.0, in units of 1/10000
NormalizedScore(score, max_rrf) ==
    IF max_rrf > 0
    THEN LET d == LongDiv(score, max_rrf, 4)
         IN  IF 2 * d.r > max_rrf \/ (2 * d.r = max_rrf /\ d.q % 2 = 1)
             THEN d.q + 1
             ELSE d.q
    ELSE 0

\* the locals of the fusion path of hybrid_search
Fusion(ft_order, sem_order, emb, query, filters, page, per_page, semantic_weight) ==
    LET fusion_limit == per_page * 3
        ft           == fulltext_search(ft_order, query, filters, 1, fusion_limit)
        sem          == semantic_search(sem_order, emb, query, filters, 1, fusion_limit)
        rrf_scores   == RRFScores(ft.results, sem.results, semantic_weight)
        sorted       == SortedPatents(rrf_scores)
    IN  [ fused            |-> TRUE,
          fulltext_results |-> ft.results,
          ft_total         |-> ft.total,
          semantic_results |-> sem.results,
          sem_total        |-> sem.total,
          rrf_scores       |-> rrf_scores.score,
          sorted_patents   |-> sorted ]

\* mutant: the total is the sum of the two source totals
FusionResultSumOfTotals(loc, page, per_page) ==
    LET offset       == (page - 1) * per_page
        page_results == Slice(loc.sorted_patents, offset, per_page)
        max_rrf      == IF Len(loc.sorted_patents) > 0
                        THEN loc.rrf_scores[loc.sorted_patents[1]]
                        ELSE 1
    IN  [ results |-> [ i \in 1..Len(page_results) |->
                          PatentToResult(page_results[i],
                              NormalizedScore(loc.rrf_scores[page_results[i]], max_rrf)) ],
          total   |-> loc.ft_total + loc.sem_total ]

\* mutant: the scores are normalised by the best score of the returned page
FusionResultPageMax(loc, page, per_page) ==
    LET offset       == (page - 1) * per_page
        page_results == Slice(loc.sorted_patents, offset, per_page)
        max_rrf      == IF Len(page_results) > 0
                        THEN loc.rrf_scores[page_results[1]]
                        ELSE 1
    IN  [ results |-> [ i \in 1..Len(page_results) |->
                          PatentToResult(page_results[i],
                              NormalizedScore(loc.rrf_scores[page_results[i]], max_rrf)) ],
          total   |-> Cardinality(DOMAIN loc.rrf_scores) ]

\* pagination, normalisation and total of the fusion path
FusionResult(loc, page, per_page) ==
    LET offset       == (page - 1) * per_page
        page_results == Slice(loc.sorted_patents, offset, per_page)
        max_rrf      == IF Len(loc.sorted_patents) > 0
                        THEN loc.rrf_scores[loc.sorted_patents[1]]
                        ELSE 1
    IN  [ results |-> [ i \in 1..Len(page_results) |->
                          PatentToResult(page_results[i],
                              NormalizedScore(loc.rrf_scores[page_results[i]], max_rrf)) ],
          total   |-> Cardinality(DOMAIN loc.rrf_scores) ]

\* select count(Patent.id) where embedding is not null
EmbeddingCount(emb) == Cardinality(emb)

\* mutant: the fallback asks full-text search for the fusion window
FallbackFusionWindow(ft_order, query, filters, page, per_page) ==
    [ log    |-> <<[fn |-> "fulltext_search", query |-> query, filters |-> filters,
                    page |-> 1, per_page |-> per_page * 3]>>,
      result |-> fulltext_search(ft_order, query, filters, 1, per_page * 3) ]

\* the fallback of hybrid_search: the call it issues and what it returns
Fallback(ft_order, query, filters, page, per_page) ==
    [ log    |-> <<[fn |-> "fulltext_search", query |-> query, filters |-> filters,
                    page |-> page, per_page |-> per_page]>>,
      result |-> fulltext_search(ft_order, query, filters, page, per_page) ]

\* the calls the fusion path issues, in order
FusionLog(query, filters, per_page) ==
    << [fn |-> "fulltext_search", query |-> query, filters |-> filters,
        page |-> 1, per_page |-> per_page * 3],
       [fn |-> "semantic_search", query |-> query, filters |-> filters,
        page |-> 1, per_page |-> per_page * 3],
       [fn |-> "generate_embedding", query |-> query, filters |-> None,
        page |-> 0, per_page |-> 0] >>

NoCall == [op |-> "none"]

\* no call has returned
NoResult == [none |-> TRUE]

NoLocals == [fused |-> FALSE]

\* the search service at rest over an empty store
SearchIdle ==
    /\ ftOrder = << >>
    /\ semOrder = << >>
    /\ embedded = {}
    /\ scall = NoCall
    /\ sret = NoResult
    /\ slog = << >>
    /\ slocals = NoLocals

\* the embedding-count query every hybrid_search starts with
CountQuery(query) ==
    [fn |-> "count_embeddings", query |-> query, filters |-> None,
     page |-> 0, per_page |-> 0]

\* hybrid_search: what it returns, the calls it issues and its locals
hybrid_search(ft_order, sem_order, emb, query, filters, page, per_page, semantic_weight) ==
    IF EmbeddingCount(emb) = 0
    THEN LET fb == Fallback(ft_order, query, filters, page, per_page)
         IN  [ result |-> fb.result,
               log    |-> <<CountQuery(query)>> \o fb.log,
               locals |-> NoLocals ]
    ELSE LET loc == Fusion(ft_order, sem_order, emb, query, filters, page, per_page,
                           semantic_weight)
         IN  [ result |-> FusionResult(loc, page, per_page),
               log    |-> <<CountQuery(query)>> \o FusionLog(query, filters, per_page),
               locals |-> loc ]

-----\* an exception leaves the call
Raised == [raised |-> "Exception"]

\* hybrid_search when the embedding provider or the semantic query may fail:
\* nothing catches the exception semantic_search raises, so it leaves
\* hybrid_search after the count and the full-text search have run
HybridSearchRun(ft_order, sem_order, emb, query, filters, page, per_page, semantic_weight, semantic_ok) ==
    IF EmbeddingCount(emb) # 0 /\ ~semantic_ok
    THEN [ result |-> Raised,
           log    |-> <<CountQuery(query)>> \o FusionLog(query, filters, per_page),
           locals |-> NoLocals ]
    ELSE hybrid_search(ft_order, sem_order, emb, query, filters, page, per_page,
                       semantic_weight)

\* semantic_search when the embedding provider or the query may fail
SemanticSearchRun(sem_order, emb, query, filters, page, per_page, semantic_ok) ==
    IF semantic_ok THEN semantic_search(sem_order, emb, query, filters, page, per_page)
    ELSE Raised

----------------------------------------------------------------------
(* White-space service: src/src/services/whitespace_service.py *)

\* decline_ratio is held in hundredths: 70 is 0.7
RatioUnit == 100

\* mutant: the consolidation rule is tried before the dormant rule
ClassifyConsolidationFirst(decline_ratio, high_impact, recent) ==
    IF decline_ratio > 70 /\ high_impact >= 3 THEN "abandoned_goldmine"
    ELSE IF high_impact >= 5 /\ decline_ratio > 30 THEN "consolidation"
    ELSE IF decline_ratio > 50 /\ recent < 5 THEN "dormant"
    ELSE IF decline_ratio > 30 THEN "emerging_gap"
    ELSE "minor_gap"

\* WhiteSpaceService._classify_opportunity
ClassifyOpportunity(decline_ratio, high_impact, recent) ==
    IF decline_ratio > 70 /\ high_impact >= 3 THEN "abandoned_goldmine"
    ELSE IF decline_ratio > 50 /\ recent < 5 THEN "dormant"
    ELSE IF high_impact >= 5 /\ decline_ratio > 30 THEN "consolidation"
    ELSE IF decline_ratio > 30 THEN "emerging_gap"
    ELSE "minor_gap"

\* round(num / den, digits) for den > 0, in units of 1/unit with unit =
\* 10^digits: the nearest multiple, a tie going to the even one; the
\* quotient is taken exactly
RoundRatio(num, den, unit) ==
    LET q == (num * unit) \div den
        r == (num * unit) % den
    IN  IF 2 * r > den \/ (2 * r = den /\ q % 2 = 1) THEN q + 1 ELSE q

\* CPC_SECTIONS.get(section, "Unknown"), for the sections the model uses
SectionName(section) ==
    CASE section = <<"A">> -> "Human Necessities"
      [] section = <<"G">> -> "Physics"
      [] section = <<"H">> -> "Electricity"
      [] section = <<"Y">> -> "Emerging Technologies"
      [] OTHER             -> "Unknown"

\* cpc_code[0] if cpc_code else ""
SectionOf(cpc_code) == IF cpc_code # << >> THEN <<cpc_code[1]>> ELSE << >>

RECURSIVE SumFrom(_, _, _)
SumFrom(rows, field, i) ==
    IF i > Len(rows) THEN 0 ELSE rows[i][field] + SumFrom(rows, field, i + 1)

\* sum(r[...] for r in rows)
SumOf(rows, field) == SumFrom(rows, field, 1)

\* mutant: the mean is taken to be the total
AvgPatentsTotal(rows) == [num |-> SumOf(rows, "patent_count"), den |-> 1]

\* avg_patents = total_patents / len(rows), as the fraction num / den
AvgPatents(rows) == [num |-> SumOf(rows, "patent_count"), den |-> Len(rows)]

\* growth_rate of a coverage bucket, in thousandths:
\* (recent_count - older_count / (years - 2)) / max(older_count / (years - 2), 1)
\* when older_count > 0 and years > 2, else 0; numerator and denominator are
\* both multiplied by years - 2
CoverageGrowthRate(patent_count, recent_count, years) ==
    LET older_count == patent_count - recent_count
    IN  IF older_count > 0 /\ years > 2
        THEN RoundRatio(recent_count * (years - 2) - older_count,
                        Max(older_count, years - 2), 1000)
        ELSE 0

\* the dict appended to coverage_areas for a row; avg_citations comes in
\* thousandths and goes out in hundredths, density_score is in hundredths
CoverageArea(row, avg_patents, years) ==
    [ cpc_code      |-> row.cpc_code,
      section       |-> SectionOf(row.cpc_code),
      section_name  |-> SectionName(SectionOf(row.cpc_code)),
      patent_count  |-> row.patent_count,
      avg_citations |-> IF IsNone(row.avg_citations) THEN 0
                        ELSE RoundRatio(Val(row.avg_citations), 1000, 100),
      recent_count  |-> row.recent_count,
      growth_rate   |-> CoverageGrowthRate(row.patent_count, row.recent_count, years),
      density_score |-> IF avg_patents.num > 0
                        THEN RoundRatio(row.patent_count * avg_patents.den,
                                        avg_patents.num, 100)
                        ELSE 0 ]

\* get_coverage_analysis on the rows its query returns; avg_patents_per_area
\* is in tenths
get_coverage_analysis(rows, cpc_level, years) ==
    IF rows = << >>
    THEN [ coverage_areas |-> << >>, total_areas |-> 0, avg_patents_per_area |-> 0,
           analysis_period_years |-> years, cpc_level |-> cpc_level ]
    ELSE LET avg_patents == AvgPatents(rows)
             coverage_areas ==
                 [ i \in 1..Len(rows) |-> CoverageArea(rows[i], avg_patents, years) ]
         IN  [ coverage_areas |-> coverage_areas,
               total_areas |-> Len(coverage_areas),
               avg_patents_per_area |-> RoundRatio(avg_patents.num, avg_patents.den, 10),
               analysis_period_years |-> years,
               cpc_level |-> cpc_level ]

\* "x or 0" on an optional count
OrZero(x) == IF IsNone(x) THEN 0 ELSE Val(x)

RECURSIVE SumRecentFrom(_, _)
SumRecentFrom(rows, i) ==
    IF i > Len(rows) THEN 0 ELSE OrZero(rows[i].recent_patents) + SumRecentFrom(rows, i + 1)

\* total_all = sum(r[1] for r in rows) if rows else 1
TotalAll(rows) == IF rows # << >> THEN SumOf(rows, "total_patents") ELSE 1

\* sum(r[2] or 0 for r in rows) or 1
RecentAll(rows) ==
    IF SumRecentFrom(rows, 1) # 0 THEN SumRecentFrom(rows, 1) ELSE 1

\* momentum = recent_share / total_share if total_share > 0 else 1, as the
\* fraction num / den: (recent / recent_all) / (total / total_all)
Momentum(row, total_all, recent_all) ==
    IF row.total_patents > 0
    THEN [ num |-> OrZero(row.recent_patents) * total_all,
           den |-> recent_all * row.total_patents ]
    ELSE [ num |-> 1, den |-> 1 ]

\* "growing" if momentum > 1.1 else "declining" if momentum < 0.9 else "stable"
Trend(momentum) ==
    IF 10 * momentum.num > 11 * momentum.den THEN "growing"
    ELSE IF 10 * momentum.num < 9 * momentum.den THEN "declining"
    ELSE "stable"

\* the dict appended to sections for a row; market_share is in tenths of a
\* percent, momentum in hundredths, avg_citations in hundredths
SectionEntry(row, total_all, recent_all) ==
    LET momentum == Momentum(row, total_all, recent_all)
    IN  [ section           |-> row.section,
          name              |-> SectionName(row.section),
          total_patents     |-> row.total_patents,
          recent_patents    |-> OrZero(row.recent_patents),
          market_share      |-> RoundRatio(row.total_patents * 100, total_all, 10),
          avg_citations     |-> RoundRatio(OrZero(row.avg_citations), 1000, 100),
          high_impact_count |-> OrZero(row.high_impact_count),
          momentum          |-> RoundRatio(momentum.num, momentum.den, 100),
          trend             |-> Trend(momentum) ]

\* get_section_overview on the rows its query returns
get_section_overview(rows, years) ==
    LET total_all  == TotalAll(rows)
        recent_all == RecentAll(rows)
    IN  [ sections       |-> [ i \in 1..Len(rows) |->
                                 SectionEntry(rows[i], total_all, recent_all) ],
          total_patents  |-> total_all,
          analysis_years |-> years ]

\* decline_ratio of get_white_spaces as the fraction num / den:
\* max(0, (historical / 5 - recent / 2) / (historical / 5)), numerator and
\* denominator both multiplied by 10; 0 when historical is 0
DeclineRatio(historical, recent) ==
    IF historical = 0 THEN [num |-> 0, den |-> 1]
    ELSE [num |-> Max(0, 2 * historical - 5 * recent), den |-> 2 * historical]

\* impact_factor = min(1.0, high_impact / 5) if high_impact > 0 else 0, in fifths
ImpactFactor(high_impact) == IF high_impact > 0 THEN Min(5, high_impact) ELSE 0

\* mutant: the weights of the decline and of the impact are exchanged
GapScoreWeightsSwapped(decline_ratio, impact_factor) ==
    [ num |-> 10 * decline_ratio.num + 3 * decline_ratio.den * impact_factor,
      den |-> 25 * decline_ratio.den ]

\* gap_score = decline_ratio * 0.6 + impact_factor * 0.4, as a fraction
GapScore(decline_ratio, impact_factor) ==
    [ num |-> 15 * decline_ratio.num + 2 * decline_ratio.den * impact_factor,
      den |-> 25 * decline_ratio.den ]

\* the least number of hundredths that is not below the fraction; a strict
\* comparison "fraction > t / 100" is the comparison "this number > t"
CeilHundredths(f) == (100 * f.num + f.den - 1) \div f.den

\* the dict appended to white_spaces for a row; decline_ratio and gap_score
\* are reported in thousandths
WhiteSpaceEntry(row) ==
    LET historical    == OrZero(row.historical_count)
        recent        == OrZero(row.recent_count)
        high_impact   == OrZero(row.high_impact_historical)
        decline_ratio == DeclineRatio(historical, recent)
        gap_score     == GapScore(decline_ratio, ImpactFactor(high_impact))
    IN  [ cpc_code           |-> row.cpc_subclass,
          section            |-> SectionOf(row.cpc_subclass),
          section_name       |-> SectionName(SectionOf(row.cpc_subclass)),
          historical_patents |-> historical,
          recent_patents     |-> recent,
          decline_ratio      |-> RoundRatio(decline_ratio.num, decline_ratio.den, 1000),
          high_impact_count  |-> high_impact,
          max_citations      |-> OrZero(row.max_citations),
          gap_score          |-> RoundRatio(gap_score.num, gap_score.den, 1000),
          opportunity_type   |-> ClassifyOpportunity(CeilHundredths(decline_ratio),
                                                     high_impact, recent) ]

\* the row is kept: historical is not 0 and gap_score is not below
\* min_gap_score (in thousandths)
KeepsRow(row, min_gap_score) ==
    LET historical == OrZero(row.historical_count)
        gap_score  == GapScore(DeclineRatio(historical, OrZero(row.recent_count)),
                               ImpactFactor(OrZero(row.high_impact_historical)))
    IN  /\ historical # 0
        /\ ~(1000 * gap_score.num < min_gap_score * gap_score.den)

\* list.sort(key=field, reverse=True): a stable sort, entries of equal key
\* stay in the order they had
RECURSIVE SortDescFrom(_, _, _, _)
SortDescFrom(entries, field, sorted, i) ==
    IF i > Len(entries) THEN sorted
    ELSE LET ahead == Cardinality({ j \in 1..Len(sorted) :
                                      sorted[j][field] >= entries[i][field] })
         IN  SortDescFrom(entries, field,
                          SubSeq(sorted, 1, ahead) \o <<entries[i]>>
                              \o SubSeq(sorted, ahead + 1, Len(sorted)),
                          i + 1)

SortDesc(entries, field) == SortDescFrom(entries, field, << >>, 1)

\* the loop over the rows of the activity query
RECURSIVE WhiteSpacesFrom(_, _, _)
WhiteSpacesFrom(rows, min_gap_score, i) ==
    IF i > Len(rows) THEN << >>
    ELSE (IF KeepsRow(rows[i], min_gap_score)
          THEN <<WhiteSpaceEntry(rows[i])>> ELSE << >>)
             \o WhiteSpacesFrom(rows, min_gap_score, i + 1)

\* get_white_spaces on the rows its activity query returns
get_white_spaces(rows, min_gap_score, limit) ==
    LET white_spaces == SortDesc(WhiteSpacesFrom(rows, min_gap_score, 1), "gap_score")
    IN  [ white_spaces    |-> Slice(white_spaces, 0, limit),
          total_found     |-> Len(white_spaces),
          min_gap_score   |-> min_gap_score,
          analysis_window |-> [historical_years |-> 5, recent_years |-> 2] ]

\* The co-occurrence query on the groups of classes found on the source
\* patents, outside the source section, in descending order of average
\* citations: HAVING count(distinct id) >= 2 and LIMIT max_results * 2.
CooccurrenceQuery(groups, max_results) ==
    LET Having(g) == g.combo_count >= 2
    IN  Slice(SelectSeq(groups, Having), 0, max_results * 2)

\* float(x or 0) on an optional average, in thousandths
FloatOrZero(x) == IF IsNone(x) THEN 0 ELSE Val(x)

\* existing_combos.get(cpc_class): the entry of the class, or None
ExistingCombo(combo_rows, cpc_class) ==
    LET hits == { i \in 1..Len(combo_rows) : combo_rows[i].adjacent_cpc = cpc_class }
    IN  IF hits = {} THEN None
        ELSE LET i == CHOOSE i \in hits : TRUE
             IN  Some([ count         |-> combo_rows[i].combo_count,
                        avg_citations |-> FloatOrZero(combo_rows[i].avg_citations) ])

\* opportunity_score as the fraction num / den:
\* min(1.0, existing.avg_citations / max(avg_citations, 1) * 0.5) for an
\* existing combination, min(1.0, 0.5 + patent_count / 1000) otherwise
OpportunityScore(existing, patent_count, avg_citations) ==
    IF ~IsNone(existing)
    THEN LET den == 2 * Max(avg_citations, 1000)
         IN  [num |-> Min(den, Val(existing).avg_citations), den |-> den]
    ELSE [num |-> Min(1000, 500 + patent_count), den |-> 1000]

\* the dict appended to opportunities for a row of the high-activity query;
\* avg_citations goes out in hundredths, opportunity_score in thousandths
Opportunity(row, combo_rows) ==
    LET avg_citations == FloatOrZero(row.avg_citations)
        existing      == ExistingCombo(combo_rows, row.cpc_class)
        score         == OpportunityScore(existing, row.patent_count, avg_citations)
    IN  [ cpc_code              |-> row.cpc_class,
          section               |-> row.section,
          section_name          |-> SectionName(row.section),
          patent_count          |-> row.patent_count,
          avg_citations         |-> RoundRatio(avg_citations, 1000, 100),
          existing_combinations |-> IF ~IsNone(existing) THEN Val(existing).count ELSE 0,
          opportunity_score     |-> RoundRatio(score.num, score.den, 1000),
          status                |-> IF ~IsNone(existing) THEN "emerging" ELSE "untapped" ]

\* get_cross_domain_opportunities on the groups its two queries work on
get_cross_domain_opportunities(groups, potential_areas, source_cpc, max_results) ==
    LET combo_rows    == CooccurrenceQuery(groups, max_results)
        opportunities == SortDesc([ i \in 1..Len(potential_areas) |->
                                      Opportunity(potential_areas[i], combo_rows) ],
                                  "opportunity_score")
    IN  [ source_cpc          |-> source_cpc,
          source_section      |-> SectionOf(source_cpc),
          source_section_name |-> SectionName(SectionOf(source_cpc)),
          opportunities       |-> Slice(opportunities, 0, max_results),
          total_analyzed      |-> Len(potential_areas) ]

WsIdle ==
    /\ wcall = NoCall
    /\ wret = NoResult

---------------------------------------------------------------------------
(* Citation service: src/src/services/citation_service.py *)

\* The patents of the store the walker runs over, and their primary keys.
StoredPatents == {"US-A", "US-B", "US-C"}

Id(p) == CASE p = "US-A" -> 1 [] p = "US-B" -> 2 [] OTHER -> 3

\* _get_patent: the patent of that number, if the store has it
GetPatent(patent_number) ==
    IF patent_number \in StoredPatents THEN Some(patent_number) ELSE None

\* limit: int = 20 of the two citation lookups
FanOutLimit == 20

\* _get_forward_citations: the first rows whose citing patent is this one,
\* each with the cited patent when it is resolved (outer join)
GetForwardCitations(rows, patent) ==
    LET Cites(r) == r.citing = patent
    IN  Slice(SelectSeq(rows, Cites), 0, FanOutLimit)

\* _get_backward_citations: the first rows whose cited patent is this one,
\* each with its citing patent (inner join)
GetBackwardCitations(rows, patent) ==
    LET CitedBy(r) == r.cited = Some(patent)
    IN  Slice(SelectSeq(rows, CitedBy), 0, FanOutLimit)

\* _to_node, reduced to the fields the walker sets
ToNode(p, depth) == [patent_number |-> p, depth |-> depth]

\* nodes[key] = node on a dict kept as the list of its values in insertion
\* order: a key already present keeps its place and takes the new value
NodesPut(nodes, node) ==
    IF \E i \in 1..Len(nodes) : nodes[i].patent_number = node.patent_number
    THEN [ i \in 1..Len(nodes) |->
             IF nodes[i].patent_number = node.patent_number THEN node ELSE nodes[i] ]
    ELSE Append(nodes, node)

\* the locals of get_citation_network once the target node is added
StartWalk(target) ==
    [ nodes         |-> <<ToNode(target, 0)>>,
      edges         |-> << >>,
      edge_set      |-> {},
      visited       |-> {Id(target)},
      level         |-> 1,
      current_level |-> <<target>>,
      next_level    |-> << >>,
      pi            |-> 1,
      rows          |-> << >> ]

NoWalk ==
    [ nodes |-> << >>, edges |-> << >>, edge_set |-> {}, visited |-> {},
      level |-> 0, current_level |-> << >>, next_level |-> << >>, pi |-> 0,
      rows |-> << >> ]

\* mutant: a patent is added again although it was visited
VisitAgain(w, p, level) ==
    [ w EXCEPT !.nodes      = NodesPut(@, ToNode(p, level)),
               !.visited    = @ \union {Id(p)},
               !.next_level = Append(@, p) ]

\* "if patent and patent.id not in visited": add the node, mark it visited
\* and queue it for the next level
Visit(w, p, level) ==
    IF Id(p) \notin w.visited
    THEN [ w EXCEPT !.nodes      = NodesPut(@, ToNode(p, level)),
                    !.visited    = @ \union {Id(p)},
                    !.next_level = Append(@, p) ]
    ELSE w

\* "if edge_key not in edge_set": add the edge once
AddEdge(w, source, target, type) ==
    LET edge_key == <<source, target, type>>
    IN  IF edge_key \notin w.edge_set
        THEN [ w EXCEPT !.edge_set = @ \union {edge_key},
                        !.edges    = Append(@, [source |-> source, target |-> target,
                                                type |-> type]) ]
        ELSE w

\* mutant: a citation that is not resolved adds no edge
ForwardRowResolvedOnly(w, patent, row) ==
    IF IsNone(row.cited) THEN w
    ELSE AddEdge(Visit(w, Val(row.cited), w.level), patent, Val(row.cited), "cites")

\* the body of the loop over the forward citations of a patent
ForwardRow(w, patent, row) ==
    LET w1         == IF ~IsNone(row.cited) THEN Visit(w, Val(row.cited), w.level) ELSE w
        target_num == IF ~IsNone(row.cited) THEN Val(row.cited)
                      ELSE row.cited_patent_number
    IN  AddEdge(w1, patent, target_num, "cites")

\* the body of the loop over the backward citations of a patent
BackwardRow(w, patent, row) ==
    LET w1 == Visit(w, row.citing, w.level)
    IN  AddEdge(w1, row.citing, patent, "cited_by")

\* the dict get_citation_network returns
NetworkResult(call, w) ==
    [ center      |-> call.patent_number,
      nodes       |-> w.nodes,
      edges       |-> w.edges,
      total_nodes |-> Len(w.nodes),
      total_edges |-> Len(w.edges),
      depth       |-> call.depth ]

NotFound == [error |-> "Patent not found"]

CitIdle ==
    /\ citations = << >>
    /\ ccall = NoCall
    /\ cpc = "idle"
    /\ walk = NoWalk
    /\ cret = NoResult

----------------------------------------------------------------------------
(* Ingestion: normalizer and patent store.  A string of characters is a
   sequence of one-character strings; a raw date string is the format it is
   written in and the day it names. *)

\* str.upper() on the characters the raw numbers of the model use
UpperChar(c) == CASE c = "u" -> "U" [] c = "s" -> "S" [] OTHER -> c

\* number.strip().upper().replace(" ", "").replace(",", ""), then the "US"
\* prefix for a US number that lacks it
normalize_patent_number(number, country) ==
    LET upper   == [ i \in 1..Len(number) |-> UpperChar(number[i]) ]
        Kept(c) == c \notin {" ", ","}
        cleaned == SelectSeq(upper, Kept)
        startswithUS == Len(cleaned) >= 2 /\ SubSeq(cleaned, 1, 2) = <<"U", "S">>
    IN  IF country = "US" /\ ~startswithUS THEN <<"U", "S">> \o cleaned ELSE cleaned

\* the formats parse_date tries
DateFormats == {"%Y-%m-%d", "%Y%m%d", "%Y-%m-%dT%H:%M:%S", "%Y-%m-%d %H:%M:%S"}

\* parse_date: None for no string, the empty string and a string in none of
\* the formats
parse_date(date_str) ==
    IF IsNone(date_str) THEN None
    ELSE IF Val(date_str).fmt \in DateFormats THEN Some(Val(date_str).day)
    ELSE None

\* normalize_raw_patent, reduced to the keys the term fields and the status
\* depend on; every value is optional as in the dict
normalize_raw_patent(raw) ==
    [ patent_number |-> Some(normalize_patent_number(raw.patent_number, raw.country)),
      filing_date   |-> parse_date(raw.filing_date),
      grant_date    |-> parse_date(raw.grant_date),
      patent_type   |-> raw.patent_type,
      country       |-> Some(raw.country),
      status        |-> Some(raw.status) ]

\* "if filing_date or grant_date: normalized['expiration_date'] = ...": the
\* key is set only then
WithExpiration(normalized) ==
    IF ~IsNone(normalized.filing_date) \/ ~IsNone(normalized.grant_date)
    THEN [ k \in DOMAIN normalized \union {"expiration_date"} |->
             IF k = "expiration_date"
             THEN calculate_expiration_date(normalized.filing_date,
                                            normalized.grant_date,
                                            normalized.patent_type, 0, 0, None)
             ELSE normalized[k] ]
    ELSE normalized

\* the columns of the patents table the model keeps
PatentColumns ==
    {"patent_number", "filing_date", "grant_date", "patent_type", "country",
     "status", "expiration_date"}

\* Patent(**{...}): a column the dict lacks is null
InsertPatent(normalized) ==
    [ k \in PatentColumns |-> IF k \in DOMAIN normalized THEN normalized[k] ELSE None ]

\* "for key, value in normalized.items(): if ... value is not None: setattr"
UpdatePatent(existing_patent, normalized) ==
    [ k \in PatentColumns |->
        IF k \in DOMAIN normalized /\ ~IsNone(normalized[k])
        THEN normalized[k]
        ELSE existing_patent[k] ]

\* raw.citations[:50]
CitationLimit == 50

\* the citation rows of a new patent: the cited patent is left unresolved
NewCitations(patent_number, raw_citations) ==
    IF IsNone(raw_citations) THEN << >>
    ELSE LET cite == Slice(Val(raw_citations), 0, CitationLimit)
         IN  [ i \in 1..Len(cite) |->
                 [ citing |-> patent_number, cited |-> None,
                   cited_patent_number |-> cite[i] ] ]

\* the state store_patent_batch starts from
StartBatch(table, rows) ==
    [ patents |-> table, citations |-> rows,
      inserted |-> 0, updated |-> 0, errors |-> 0 ]

\* mutant: a re-ingested patent gets the citations of the new record as well
StoreOneCitationsOnUpdate(b, raw) ==
    LET normalized == WithExpiration(normalize_raw_patent(raw))
        number     == Val(normalized.patent_number)
    IN  IF number \in DOMAIN b.patents
        THEN [ b EXCEPT !.patents[number] = UpdatePatent(@, normalized),
                        !.updated = @ + 1,
                        !.citations = @ \o NewCitations(number, raw.citations) ]
        ELSE [ b EXCEPT !.patents   = [ n \in DOMAIN b.patents \union {number} |->
                                          IF n = number THEN InsertPatent(normalized)
                                          ELSE b.patents[n] ],
                        !.inserted  = @ + 1,
                        !.citations = @ \o NewCitations(number, raw.citations) ]

\* the body of the loop of store_patent_batch for one raw patent; the lookup
\* sees the patents added earlier in the batch (the session autoflushes)
StoreOne(b, raw) ==
    LET normalized == WithExpiration(normalize_raw_patent(raw))
        number     == Val(normalized.patent_number)
    IN  IF number \in DOMAIN b.patents
        THEN [ b EXCEPT !.patents[number] = UpdatePatent(@, normalized),
                        !.updated = @ + 1 ]
        ELSE [ b EXCEPT !.patents   = [ n \in DOMAIN b.patents \union {number} |->
                                          IF n = number THEN InsertPatent(normalized)
                                          ELSE b.patents[n] ],
                        !.inserted  = @ + 1,
                        !.citations = @ \o NewCitations(number, raw.citations) ]

RECURSIVE StoreFrom(_, _, _)
StoreFrom(b, raw_patents, i) ==
    IF i > Len(raw_patents) THEN b
    ELSE StoreFrom(StoreOne(b, raw_patents[i]), raw_patents, i + 1)

\* "raw.citations or []"
OrEmpty(raw_citations) == IF IsNone(raw_citations) THEN << >> ELSE Val(raw_citations)

\* store_patent_batch: the tables after the batch and the counts returned
store_patent_batch(table, rows, raw_patents) ==
    StoreFrom(StartBatch(table, rows), raw_patents, 1)

StoreIdle ==
    /\ patents = << >>
    /\ stcall = NoCall
    /\ stret = NoResult

----------------------------------------------------------------------------
(* RateLimiter.  Times are whole units of the monotonic clock. *)

\* RateLimiter.__init__
RateLimiter(max_requests, time_window) ==
    [ max_requests |-> max_requests, time_window |-> time_window,
      timestamps |-> << >> ]

\* the callers of acquire()
Callers == {"c1", "c2"}

\* mutant: a timestamp is dropped one time unit before it is a window old
PopExpiredEarly(timestamps, now, time_window) ==
    LET Fresh(t) == ~(t <= now - time_window + 1)
    IN  SelectSeq(timestamps, Fresh)

\* "while self._timestamps and self._timestamps[0] <= now - self.time_window:
\* popleft()"; the timestamps are in non-decreasing order, so the loop drops
\* exactly those that are a window old
PopExpired(timestamps, now, time_window) ==
    LET Fresh(t) == ~(t <= now - time_window)
    IN  SelectSeq(timestamps, Fresh)

\* the sleep acquire() decides on after dropping the old timestamps: 0 for
\* no sleep
SleepTime(l, timestamps, now) ==
    IF Len(timestamps) >= l.max_requests
    THEN LET sleep_time == timestamps[1] - (now - l.time_window)
         IN  IF sleep_time > 0 THEN sleep_time ELSE 0
    ELSE 0

LimIdleWith(l) ==
    /\ clock = 0
    /\ limiter = l
    /\ lock = << >>
    /\ lpc = [ c \in Callers |-> "idle" ]
    /\ lnow = [ c \in Callers |-> 0 ]
    /\ lwake = [ c \in Callers |-> 0 ]
    /\ completed = << >>

LimIdle == LimIdleWith(RateLimiter(1, 1))

---------------------------------------------------------------------------
(* Ingestion jobs: src/src/api/routes/ingestion.py (trigger_ingestion) and
   src/src/pipeline/orchestrator.py (ingest_patents_task).  A job's id is
   its index in jobs, a Celery task's id its index in tasks. *)

\* the requests that can be in flight at once
Clients == {"r1", "r2"}

\* the sources the request schema admits; the orchestrator knows "uspto"
Sources == {"uspto", "epo"}

\* select count(id) where source = ... and status in ("pending", "running")
ActiveCount(rows, source) ==
    Cardinality({ i \in 1..Len(rows) :
                    /\ rows[i].source = source
                    /\ rows[i].status \in {"pending", "running"} })

\* IngestionJob(source=..., status="pending", job_type=...)
NewJob(source, since_date) ==
    [ source         |-> source,
      status         |-> "pending",
      job_type       |-> IF ~IsNone(since_date) THEN "incremental" ELSE "full",
      celery_task_id |-> None,
      error_message  |-> None ]

\* ingest_patents_task.delay(source=..., batch_size=..., max_patents=...)
NewTask(source, max_patents) ==
    [ source |-> source, max_patents |-> max_patents, state |-> "PENDING",
      total_fetched |-> 0, total_inserted |-> 0, total_updated |-> 0,
      total_errors |-> 0, batches |-> 0 ]

NoRequest ==
    [ pc |-> "idle", source |-> "", max_patents |-> None, since_date |-> None,
      job |-> 0, response |-> NoResult ]

IngIdle ==
    /\ jobs = << >>
    /\ reqs = [c \in Clients |-> NoRequest]
    /\ tasks = << >>

---------------------------------------------------------------------------
(* Inputs of the term calculator *)

\* first day the model's clock shows, and how many days it may advance
FirstDay == 2460

MaxDaysElapsed == 2

FilingDates == {0, 1000}

\* two early days and 2020-01-01
GrantDates == {1000, 2000, Date(2020, 1, 1)}

PatentTypes == {"utility", "plant", "unknown", "design", "des", "Design", "Utility", ""}

AdjustmentDays == {-5, 0, 30}

DisclaimerDates == {5000, 6475, 7330, 9000}

ExpirationDates == {FirstDay - 1, FirstDay, FirstDay + 1, 9000}

FeeYears == {3, 7, 11}

TermIdle ==
    /\ today = FirstDay
    /\ tcall = NoCall
    /\ tret = NoResult

TermInit ==
    /\ TermIdle
    /\ SearchIdle
    /\ WsIdle
    /\ CitIdle
    /\ StoreIdle
    /\ IngIdle
    /\ LimIdle

\* the calendar moves on
Tick ==
    /\ tcall = NoCall
    /\ today < FirstDay + MaxDaysElapsed
    /\ today' = today + 1
    /\ UNCHANGED <<tcall, tret>>
    /\ UNCHANGED nonTermVars

CallCalculateExpirationDate ==
    \E f \in Option(FilingDates), g \in Option(GrantDates),
       pt \in Option(PatentTypes), pta \in AdjustmentDays,
       pte \in AdjustmentDays, td \in Option(DisclaimerDates) :
        /\ tcall = NoCall
        /\ tcall' = [ op |-> "calculate_expiration_date",
                      filing_date |-> f, grant_date |-> g, patent_type |-> pt,
                      pta_days |-> pta, pte_days |-> pte,
                      terminal_disclaimer_date |-> td ]
        /\ tret' = [date |-> calculate_expiration_date(f, g, pt, pta, pte, td)]
        /\ UNCHANGED today
        /\ UNCHANGED nonTermVars

\* the types of the patents whose fee windows and status are asked for; the
\* two functions are not given the type
FeePatentTypes == {None, Some("utility"), Some("plant"), Some("design")}

CallCalculateMaintenanceFeeDates ==
    \E g \in Option(GrantDates), pt \in FeePatentTypes :
        /\ tcall = NoCall
        /\ tcall' = [ op |-> "calculate_maintenance_fee_dates", grant_date |-> g,
                      patent_type |-> pt ]
        /\ tret' = [fees |-> calculate_maintenance_fee_dates(g)]
        /\ UNCHANGED today
        /\ UNCHANGED nonTermVars

CallDeterminePatentStatus ==
    \E e \in Option(ExpirationDates), paid \in Option(SUBSET FeeYears),
       g \in Option(GrantDates), pt \in FeePatentTypes :
        /\ tcall = NoCall
        /\ tcall' = [ op |-> "determine_patent_status",
                      expiration_date |-> e, maintenance_fees_paid |-> paid,
                      grant_date |-> g, today |-> today, patent_type |-> pt ]
        /\ tret' = [status |-> determine_patent_status(today, e, paid, g)]
        /\ UNCHANGED today
        /\ UNCHANGED nonTermVars

CallDaysUntilExpiration ==
    \E e \in Option(ExpirationDates) :
        /\ tcall = NoCall
        /\ tcall' = [ op |-> "days_until_expiration",
                      expiration_date |-> e, today |-> today ]
        /\ tret' = [days |-> days_until_expiration(today, e)]
        /\ UNCHANGED today
        /\ UNCHANGED nonTermVars

\* the caller takes the result; the calculator keeps no state between calls
TermReturn ==
    /\ tcall # NoCall
    /\ tcall' = NoCall
    /\ tret' = NoResult
    /\ UNCHANGED today
    /\ UNCHANGED nonTermVars

TermNext ==
    \/ Tick
    \/ TermReturn
    \/ CallCalculateExpirationDate
    \/ CallCalculateMaintenanceFeeDates
    \/ CallDeterminePatentStatus
    \/ CallDaysUntilExpiration

SpecTerm == TermInit /\ [][TermNext]_vars

---------------------------------------------------------------------------
(* Inputs and operations of the search service *)

MaxPage == 2

MaxPerPage == 2

\* "wind" matches no patent of the corpus
Queries == {"battery", "solar", "wind"}

\* no filters, {"country": "US"}, or {"country": "JP"}, which no patent passes
Filters == {None, Some("US"), Some("JP")}

\* semantic_weight in tenths
SemanticWeights == {0, 3, 6, 10}

EmbeddedSets == {{}, {"US-002", "US-003", "EP-004"}, Patents}

\* every order of the patents of S
Orders(S) ==
    { o \in [1..Cardinality(S) -> S] :
        \A i, j \in 1..Cardinality(S) : o[i] = o[j] => i = j }

SearchInit ==
    /\ ftOrder \in Orders(Patents)
    /\ embedded \in EmbeddedSets
    /\ semOrder \in Orders(embedded)
    /\ scall = NoCall
    /\ sret = NoResult
    /\ slog = << >>
    /\ slocals = NoLocals
    /\ TermIdle
    /\ WsIdle
    /\ CitIdle
    /\ StoreIdle
    /\ IngIdle
    /\ LimIdle

CallHybridSearch ==
    \E q \in Queries, f \in Filters, page \in 1..MaxPage,
       per_page \in 1..MaxPerPage, w \in SemanticWeights, ok \in BOOLEAN :
        LET run == HybridSearchRun(ftOrder, semOrder, embedded, q, f, page, per_page,
                                   w, ok)
        IN  /\ scall = NoCall
            /\ scall' = [ op |-> "hybrid_search", query |-> q, filters |-> f,
                          page |-> page, per_page |-> per_page,
                          semantic_weight |-> w, semantic_ok |-> ok ]
            /\ sret' = run.result
            /\ slog' = run.log
            /\ slocals' = run.locals
            /\ UNCHANGED <<ftOrder, semOrder, embedded>>
            /\ UNCHANGED nonSearchVars

CallFulltextSearch ==
    \E q \in Queries, f \in Filters, page \in 1..MaxPage, per_page \in 1..MaxPerPage :
        /\ scall = NoCall
        /\ scall' = [ op |-> "fulltext_search", query |-> q, filters |-> f,
                      page |-> page, per_page |-> per_page ]
        /\ sret' = fulltext_search(ftOrder, q, f, page, per_page)
        /\ slog' = << >>
        /\ slocals' = NoLocals
        /\ UNCHANGED <<ftOrder, semOrder, embedded>>
        /\ UNCHANGED nonSearchVars

CallSemanticSearch ==
    \E q \in Queries, f \in Filters, page \in 1..MaxPage, per_page \in 1..MaxPerPage,
       ok \in BOOLEAN :
        /\ scall = NoCall
        /\ scall' = [ op |-> "semantic_search", query |-> q, filters |-> f,
                      page |-> page, per_page |-> per_page, semantic_ok |-> ok ]
        /\ sret' = SemanticSearchRun(semOrder, embedded, q, f, page, per_page, ok)
        /\ slog' = <<[fn |-> "generate_embedding", query |-> q, filters |-> None,
                      page |-> 0, per_page |-> 0]>>
        /\ slocals' = NoLocals
        /\ UNCHANGED <<ftOrder, semOrder, embedded>>
        /\ UNCHANGED nonSearchVars

\* the caller takes the result; the service keeps nothing between calls
SearchReturn ==
    /\ scall # NoCall
    /\ scall' = NoCall
    /\ sret' = NoResult
    /\ slog' = << >>
    /\ slocals' = NoLocals
    /\ UNCHANGED <<ftOrder, semOrder, embedded>>
    /\ UNCHANGED nonSearchVars

SearchNext ==
    \/ CallHybridSearch
    \/ CallFulltextSearch
    \/ CallSemanticSearch
    \/ SearchReturn

SpecSearch == SearchInit /\ [][SearchNext]_vars

---------------------------------------------------------------------------
(* Inputs and operations of the white-space service *)

MaxHighImpact == 6

MaxRecent == 6

\* decline ratios in hundredths, on and around the thresholds
DeclineRatios == {0, 15, 29, 30, 31, 50, 51, 69, 70, 71, 100, 140}

WsInit ==
    /\ WsIdle
    /\ TermIdle
    /\ SearchIdle
    /\ CitIdle
    /\ StoreIdle
    /\ IngIdle
    /\ LimIdle

CallClassifyOpportunity ==
    \E d \in DeclineRatios, h \in 0..MaxHighImpact, r \in 0..MaxRecent :
        /\ wcall = NoCall
        /\ wcall' = [ op |-> "_classify_opportunity",
                      decline_ratio |-> d, high_impact |-> h, recent |-> r ]
        /\ wret' = [label |-> ClassifyOpportunity(d, h, r)]
        /\ UNCHANGED nonWsVars

\* the CPC prefixes of the coverage buckets, in the order the query returns
\* them, and the average citation count (in thousandths) of each
BucketCodes == << <<"H", "0", "1", "L">>, <<"G", "0", "6", "F">>, <<"Z", "9", "9", "Z">> >>

BucketAvgCitations == << Some(4505), None, Some(1250) >>

MaxPatentCount == 4

RecentCounts == {0, 1, 3}

CoverageYears == {2, 3, 5}

\* what the coverage query can return: at most one row per prefix, every
\* count at least 1, the rows in descending order of patent_count
CoverageRows ==
    UNION { { rows \in [ 1..n -> [ patent_count : 1..MaxPatentCount,
                                   recent_count : RecentCounts ] ] :
                  \A i \in 1..(n - 1) : rows[i].patent_count >= rows[i + 1].patent_count }
            : n \in 0..Len(BucketCodes) }

\* the row of the query result for the i-th bucket
CoverageRow(r, i) ==
    [ cpc_code |-> BucketCodes[i], patent_count |-> r.patent_count,
      avg_citations |-> BucketAvgCitations[i], recent_count |-> r.recent_count ]

CallGetCoverageAnalysis ==
    \E counts \in CoverageRows, years \in CoverageYears :
        LET rows == [ i \in 1..Len(counts) |-> CoverageRow(counts[i], i) ]
        IN  /\ wcall = NoCall
            /\ wcall' = [ op |-> "get_coverage_analysis", rows |-> rows,
                          cpc_level |-> 4, years |-> years ]
            /\ wret' = get_coverage_analysis(rows, 4, years)
            /\ UNCHANGED nonWsVars

\* the sections of the overview rows, in the order the query returns them
SectionCodes == << <<"H">>, <<"G">>, <<"Z">> >>

MaxSectionTotal == 3

\* what the overview query can return: at most one row per section, every
\* total at least 1, the rows in descending order of total_patents
SectionRows ==
    UNION { { rows \in [ 1..n -> [ total_patents : 1..MaxSectionTotal,
                                   recent_patents : {Some(0), Some(1), Some(3)} ] ] :
                  \A i \in 1..(n - 1) : rows[i].total_patents >= rows[i + 1].total_patents }
            : n \in 0..Len(SectionCodes) }

SectionRow(r, i) ==
    [ section |-> SectionCodes[i], total_patents |-> r.total_patents,
      recent_patents |-> r.recent_patents, avg_citations |-> BucketAvgCitations[i],
      high_impact_count |-> Some(i - 1) ]

CallGetSectionOverview ==
    \E totals \in SectionRows, years \in CoverageYears :
        LET rows == [ i \in 1..Len(totals) |-> SectionRow(totals[i], i) ]
        IN  /\ wcall = NoCall
            /\ wcall' = [ op |-> "get_section_overview", rows |-> rows, years |-> years ]
            /\ wret' = get_section_overview(rows, years)
            /\ UNCHANGED nonWsVars

\* the caller takes the result
WsReturn ==
    /\ wcall # NoCall
    /\ wcall' = NoCall
    /\ wret' = NoResult
    /\ UNCHANGED nonWsVars

MaxLimit == 2

\* min_gap_score in thousandths: 0, the default 0.3, and 0.5
MinGapScores == {0, 300, 500}

\* What the activity query can return for a subclass: the HAVING clause keeps
\* the subclasses with at least 5 patents filed before the recent window.
ActivityCounts ==
    [ historical_count : {5, 8}, recent_count : {0, 3},
      high_impact_historical : {0, 2, 7} ]

\* at most one row per subclass
ActivityRows == UNION { [1..n -> ActivityCounts] : n \in 0..Len(BucketCodes) }

BucketMaxCitations == << Some(42), None, Some(11) >>

\* the row of the activity query for the i-th subclass
ActivityRow(r, i) ==
    [ cpc_subclass           |-> BucketCodes[i],
      historical_count       |-> Some(r.historical_count),
      recent_count           |-> Some(r.recent_count),
      high_impact_historical |-> Some(r.high_impact_historical),
      max_citations          |-> BucketMaxCitations[i] ]

CallGetWhiteSpaces ==
    \E counts \in ActivityRows, min_gap_score \in MinGapScores, limit \in 1..MaxLimit :
        LET rows == [ i \in 1..Len(counts) |-> ActivityRow(counts[i], i) ]
        IN  /\ wcall = NoCall
            /\ wcall' = [ op |-> "get_white_spaces", rows |-> rows,
                          min_gap_score |-> min_gap_score, limit |-> limit ]
            /\ wret' = get_white_spaces(rows, min_gap_score, limit)
            /\ UNCHANGED nonWsVars

MaxResults == 2

\* the classes, outside section H, found on the patents of the source area,
\* in descending order of their average citations (in thousandths)
AdjacentClasses ==
    << <<"G", "0", "6", "F">>, <<"Y", "0", "2", "E">>, <<"A", "6", "1", "K">> >>

AdjacentAvgCitations == << Some(9000), Some(3000), Some(400) >>

\* each class is on no source patent, on one or on two
CooccurrenceCounts == [1..Len(AdjacentClasses) -> 0..2]

RECURSIVE CooccurrenceGroupsFrom(_, _)
CooccurrenceGroupsFrom(counts, i) ==
    IF i > Len(AdjacentClasses) THEN << >>
    ELSE (IF counts[i] > 0
          THEN << [ adjacent_cpc  |-> AdjacentClasses[i],
                    cpc_section   |-> SectionOf(AdjacentClasses[i]),
                    combo_count   |-> counts[i],
                    avg_citations |-> AdjacentAvgCitations[i] ] >>
          ELSE << >>)
             \o CooccurrenceGroupsFrom(counts, i + 1)

\* the classes of the high-activity query, the largest first
PotentialClasses == << <<"A", "6", "1", "K">>, <<"G", "0", "6", "F">> >>

\* what the high-activity query can return: at least 50 patents per class,
\* in descending order of patent_count; the averages are in thousandths
PotentialAreas ==
    UNION { { rows \in [ 1..n -> [ patent_count : {50, 600},
                                   avg_citations : {None, Some(500), Some(4000)} ] ] :
                  \A i \in 1..(n - 1) : rows[i].patent_count >= rows[i + 1].patent_count }
            : n \in 0..Len(PotentialClasses) }

PotentialArea(r, i) ==
    [ cpc_class |-> PotentialClasses[i], section |-> SectionOf(PotentialClasses[i]),
      patent_count |-> r.patent_count, avg_citations |-> r.avg_citations ]

CallGetCrossDomainOpportunities ==
    \E counts \in CooccurrenceCounts, areas \in PotentialAreas, max_results \in 1..MaxResults :
        LET groups == CooccurrenceGroupsFrom(counts, 1)
            rows   == [ i \in 1..Len(areas) |-> PotentialArea(areas[i], i) ]
            source == <<"H", "0", "1", "L">>
        IN  /\ wcall = NoCall
            /\ wcall' = [ op |-> "get_cross_domain_opportunities", groups |-> groups,
                          potential_areas |-> rows, source_cpc |-> source,
                          max_results |-> max_results ]
            /\ wret' = get_cross_domain_opportunities(groups, rows, source, max_results)
            /\ UNCHANGED nonWsVars

WsNext ==
    \/ CallClassifyOpportunity
    \/ CallGetCoverageAnalysis
    \/ CallGetSectionOverview
    \/ CallGetWhiteSpaces
    \/ CallGetCrossDomainOpportunities
    \/ WsReturn

SpecWhitespace == WsInit /\ [][WsNext]_vars

---------------------------------------------------------------------------
(* Inputs and operations of the citation service *)

MaxDepth == 2

MaxNodes == 3

\* a resolved citation row and an unresolved one
Resolved(citing, cited) ==
    [citing |-> citing, cited |-> Some(cited), cited_patent_number |-> cited]

Unresolved(citing, number) ==
    [citing |-> citing, cited |-> None, cited_patent_number |-> number]

\* the rows a store of the model may hold, in table order: every citation
\* between two stored patents, one patent citing itself, a citation of a
\* number the store does not hold, and a citation left unresolved although
\* the store holds a patent of that number (ingestion writes
\* cited_patent_number and never cited_patent_id)
CandidateRows ==
    << Resolved("US-A", "US-B"), Resolved("US-A", "US-C"),
       Unresolved("US-A", "EP-X"), Unresolved("US-A", "US-B"),
       Resolved("US-B", "US-A"), Resolved("US-B", "US-C"),
       Resolved("US-B", "US-B"),
       Resolved("US-C", "US-A"), Resolved("US-C", "US-B") >>

RECURSIVE RowsAt(_, _)
RowsAt(indexes, i) ==
    IF i > Len(CandidateRows) THEN << >>
    ELSE (IF i \in indexes THEN <<CandidateRows[i]>> ELSE << >>)
             \o RowsAt(indexes, i + 1)

CitationStores == { RowsAt(indexes, 1) : indexes \in SUBSET (1..Len(CandidateRows)) }

\* the patent numbers asked for: a stored patent and one the store lacks
Targets == {"US-A", "US-Z"}

CitInit ==
    /\ citations \in CitationStores
    /\ ccall = NoCall
    /\ cpc = "idle"
    /\ walk = NoWalk
    /\ cret = NoResult
    /\ TermIdle
    /\ SearchIdle
    /\ WsIdle
    /\ StoreIdle
    /\ IngIdle
    /\ LimIdle

\* the call up to the first level: look the target up, add its node
CallGetCitationNetwork ==
    \E pn \in Targets, depth \in 0..MaxDepth, max_nodes \in 1..MaxNodes :
        /\ cpc = "idle"
        /\ ccall' = [ op |-> "get_citation_network", patent_number |-> pn,
                      depth |-> depth, max_nodes |-> max_nodes ]
        /\ IF IsNone(GetPatent(pn))
           THEN /\ cret' = NotFound
                /\ cpc' = "done"
                /\ walk' = NoWalk
           ELSE /\ cret' = NoResult
                /\ cpc' = "level"
                /\ walk' = StartWalk(Val(GetPatent(pn)))
        /\ UNCHANGED citations
        /\ UNCHANGED nonCitVars

\* "for level in range(1, depth + 1)": return when the levels are done or
\* the node budget is used up, else start on the patents of the level
LevelStep ==
    /\ cpc = "level"
    /\ IF walk.level > ccall.depth \/ Len(walk.nodes) >= ccall.max_nodes
       THEN /\ cret' = NetworkResult(ccall, walk)
            /\ cpc' = "done"
            /\ UNCHANGED walk
       ELSE /\ walk' = [walk EXCEPT !.next_level = << >>, !.pi = 1]
            /\ cpc' = "patent"
            /\ UNCHANGED cret
    /\ UNCHANGED <<citations, ccall>>
    /\ UNCHANGED nonCitVars

\* "for patent in current_level": fetch the forward citations of the next
\* patent, or move to the next level
PatentStep ==
    /\ cpc = "patent"
    /\ IF walk.pi > Len(walk.current_level)
       THEN /\ walk' = [walk EXCEPT !.current_level = walk.next_level,
                                    !.level = @ + 1]
            /\ cpc' = "level"
       ELSE /\ walk' = [walk EXCEPT !.rows =
                           GetForwardCitations(citations, walk.current_level[walk.pi])]
            /\ cpc' = "forward"
    /\ UNCHANGED <<citations, ccall, cret>>
    /\ UNCHANGED nonCitVars

\* one forward citation; at the end of the rows, or once the node budget is
\* used up, fetch the backward citations
ForwardStep ==
    /\ cpc = "forward"
    /\ LET patent == walk.current_level[walk.pi]
       IN  IF walk.rows = << >> \/ Len(walk.nodes) >= ccall.max_nodes
           THEN /\ walk' = [walk EXCEPT !.rows = GetBackwardCitations(citations, patent)]
                /\ cpc' = "backward"
           ELSE /\ walk' = [ForwardRow(walk, patent, Head(walk.rows))
                               EXCEPT !.rows = Tail(walk.rows)]
                /\ cpc' = "forward"
    /\ UNCHANGED <<citations, ccall, cret>>
    /\ UNCHANGED nonCitVars

\* one backward citation; at the end of the rows, or once the node budget is
\* used up, go on with the next patent of the level
BackwardStep ==
    /\ cpc = "backward"
    /\ LET patent == walk.current_level[walk.pi]
       IN  IF walk.rows = << >> \/ Len(walk.nodes) >= ccall.max_nodes
           THEN /\ walk' = [walk EXCEPT !.rows = << >>, !.pi = @ + 1]
                /\ cpc' = "patent"
           ELSE /\ walk' = [BackwardRow(walk, patent, Head(walk.rows))
                               EXCEPT !.rows = Tail(walk.rows)]
                /\ cpc' = "backward"
    /\ UNCHANGED <<citations, ccall, cret>>
    /\ UNCHANGED nonCitVars

\* the caller takes the graph; the service keeps nothing between calls
CitReturn ==
    /\ cpc = "done"
    /\ cpc' = "idle"
    /\ ccall' = NoCall
    /\ walk' = NoWalk
    /\ cret' = NoResult
    /\ UNCHANGED citations
    /\ UNCHANGED nonCitVars

CitNext ==
    \/ CallGetCitationNetwork
    \/ LevelStep
    \/ PatentStep
    \/ ForwardStep
    \/ BackwardStep
    \/ CitReturn

\* a call, once made, runs on: every step of the handler is eventually taken
SpecCitation == CitInit /\ [][CitNext]_vars /\ WF_vars(CitNext)

----------------------------------------------------------------------------
(* Inputs and operations of the patent store *)

\* two spellings of one patent number
RawNumbers == { <<"7">>, <<"u", "s", " ", "7">> }

RawDate(fmt, day) == Some([fmt |-> fmt, day |-> day])

\* no filing date, a recent one, and one more than a term in the past
RawFilingDates == { None, RawDate("%Y-%m-%d", 0), RawDate("%Y%m%d", -6000) }

\* no grant date, two dates, and a string parse_date cannot read
RawGrantDates ==
    { None, RawDate("%Y-%m-%d", 1000), RawDate("%Y-%m-%dT%H:%M:%S", 2000),
      RawDate("%d/%m/%Y", 2000) }

RawTypes == { None, Some("utility"), Some("Design") }

\* RawPatentData.status: the default, which is also what the USPTO ingester sets
RawStatuses == { "active" }

\* no citations, two, and one more than the store keeps
RawCitations ==
    { None,
      Some(<< <<"U", "S", "8">>, <<"E", "P", "5">> >>),
      Some([ i \in 1..(CitationLimit + 1) |->
               IF i <= CitationLimit THEN <<"U", "S", "8">> ELSE <<"U", "S", "9">> ]) }

RawPatents ==
    [ patent_number : RawNumbers, country : {"US"}, filing_date : RawFilingDates,
      grant_date : RawGrantDates, patent_type : RawTypes, status : RawStatuses,
      citations : RawCitations ]

\* the raw patents that come in batches of two: a patent and its re-ingest
PairedRawPatents ==
    { raw \in RawPatents : /\ raw.patent_number = <<"7">>
                           /\ raw.grant_date \in {None, RawDate("%Y-%m-%d", 1000)}
                           /\ raw.patent_type = Some("utility")
                           /\ Len(OrEmpty(raw.citations)) <= 2 }

\* the first of a pair carries no citations, its re-ingest may
Batches ==
    { << >> } \union { <<raw>> : raw \in RawPatents }
              \union { <<r1, r2>> \in PairedRawPatents \X PairedRawPatents :
                           r1.citations = None }

StoreInit ==
    /\ StoreIdle
    /\ IngIdle
    /\ TermIdle
    /\ SearchIdle
    /\ WsIdle
    /\ CitIdle
    /\ LimIdle

\* store_patent_batch; when the final flush fails the session is rolled back
\* and the tables stay as they were
StorePatentBatch ==
    \E raw_patents \in Batches, flushed \in BOOLEAN :
        LET b == store_patent_batch(patents, citations, raw_patents)
        IN  /\ stcall = NoCall
            /\ stcall' = [op |-> "store_patent_batch", raw_patents |-> raw_patents]
            /\ patents' = IF flushed THEN b.patents ELSE patents
            /\ citations' = IF flushed THEN b.citations ELSE citations
            /\ stret' = [ inserted |-> b.inserted, updated |-> b.updated,
                          errors |-> b.errors, flushed |-> flushed ]
            /\ UNCHANGED nonStoreVars

\* the caller takes the counts; the tables stay
StoreReturn ==
    /\ stcall # NoCall
    /\ stcall' = NoCall
    /\ stret' = NoResult
    /\ UNCHANGED <<patents, citations>>
    /\ UNCHANGED nonStoreVars

StoreNext ==
    \/ StorePatentBatch
    \/ StoreReturn

SpecStore == StoreInit /\ [][StoreNext]_vars


---------------------------------------------------------------------------
(* Inputs and operations of the rate limiter *)

MaxRequests == 2

TimeWindows == {2, 3}

MaxClock == 7

LimInit ==
    /\ \E max_requests \in 1..MaxRequests, time_window \in TimeWindows :
           LimIdleWith(RateLimiter(max_requests, time_window))
    /\ TermIdle
    /\ SearchIdle
    /\ WsIdle
    /\ CitIdle
    /\ StoreIdle
    /\ IngIdle

\* time passes
ClockTick ==
    /\ clock < MaxClock
    /\ clock' = clock + 1
    /\ UNCHANGED <<limiter, lock, lpc, lnow, lwake, completed>>
    /\ UNCHANGED nonLimVars

\* a caller calls acquire() and asks for the lock
Acquire(c) ==
    /\ lpc[c] = "idle"
    /\ lpc' = [lpc EXCEPT ![c] = "locking"]
    /\ lock' = Append(lock, c)
    /\ UNCHANGED <<clock, limiter, lnow, lwake, completed>>
    /\ UNCHANGED nonLimVars

\* the caller has the lock: it reads the clock, drops the timestamps that
\* are a window old and decides whether to sleep
Decide(c) ==
    /\ lpc[c] = "locking"
    /\ Head(lock) = c
    /\ LET now        == clock
           timestamps == PopExpired(limiter.timestamps, now, limiter.time_window)
           sleep_time == SleepTime(limiter, timestamps, now)
       IN  /\ limiter' = [limiter EXCEPT !.timestamps = timestamps]
           /\ lnow' = [lnow EXCEPT ![c] = now]
           /\ lwake' = [lwake EXCEPT ![c] = now + sleep_time]
           /\ lpc' = [lpc EXCEPT ![c] = IF sleep_time > 0 THEN "sleeping" ELSE "append"]
    /\ UNCHANGED <<clock, lock, completed>>
    /\ UNCHANGED nonLimVars

\* asyncio.sleep(sleep_time) is over, no earlier than asked for
Wake(c) ==
    /\ lpc[c] = "sleeping"
    /\ clock >= lwake[c]
    /\ lpc' = [lpc EXCEPT ![c] = "append"]
    /\ UNCHANGED <<clock, limiter, lock, lnow, lwake, completed>>
    /\ UNCHANGED nonLimVars

\* self._timestamps.append(time.monotonic()); the lock is released,
\* acquire() returns and its locals are gone
Complete(c) ==
    /\ lpc[c] = "append"
    /\ limiter' = [limiter EXCEPT !.timestamps = Append(@, clock)]
    /\ completed' = Append(completed, clock)
    /\ lock' = Tail(lock)
    /\ lpc' = [lpc EXCEPT ![c] = "idle"]
    /\ lnow' = [lnow EXCEPT ![c] = 0]
    /\ lwake' = [lwake EXCEPT ![c] = 0]
    /\ UNCHANGED clock
    /\ UNCHANGED nonLimVars

LimNext ==
    \/ ClockTick
    \/ \E c \in Callers : Acquire(c)
    \/ \E c \in Callers : Decide(c)
    \/ \E c \in Callers : Wake(c)
    \/ \E c \in Callers : Complete(c)

SpecLimiter == LimInit /\ [][LimNext]_vars

---------------------------------------------------------------------------
(* Operations on ingestion jobs *)

MaxJobs == 2

MaxBatches == 2

\* max_patents: none, or a count the first batch of one patent reaches
MaxPatentsValues == {None, Some(1)}

\* since_date: none, a date, or a string of the admitted pattern that is no
\* date ("2024-13-45")
SinceDates == {None, Some("date"), Some("no date")}

\* what the ingester can yield: an empty batch or a batch of one patent
TaskBatches ==
    { << >>,
      << [ patent_number |-> <<"7">>, country |-> "US",
           filing_date |-> RawDate("%Y-%m-%d", 0), grant_date |-> None,
           patent_type |-> Some("utility"), status |-> "active",
           citations |-> None ] >> }

\* the variables neither the route nor the task writes
nonIngVars == <<termVars, searchVars, wsVars, ccall, cpc, walk, cret, stcall, stret, limVars>>

IngInit ==
    /\ IngIdle
    /\ TermIdle
    /\ SearchIdle
    /\ WsIdle
    /\ CitIdle
    /\ StoreIdle
    /\ LimIdle

\* the requests that may still create a job
Creating == { c \in Clients : reqs[c].pc \in {"check", "create"} }

\* a POST /trigger request arrives, while the jobs table has room
Trigger(c) ==
    \E source \in Sources, max_patents \in MaxPatentsValues, since_date \in SinceDates :
        /\ reqs[c].pc = "idle"
        /\ Len(jobs) + Cardinality(Creating) < MaxJobs
        /\ reqs' = [reqs EXCEPT ![c] = [ NoRequest EXCEPT !.pc = "check",
                                                         !.source = source,
                                                         !.max_patents = max_patents,
                                                         !.since_date = since_date ]]
        /\ UNCHANGED <<jobs, tasks, patents, citations>>
        /\ UNCHANGED nonIngVars

\* "Check for active jobs": 409 when the source has a pending or running job
CheckActive(c) ==
    /\ reqs[c].pc = "check"
    /\ IF ActiveCount(jobs, reqs[c].source) > 0
       THEN reqs' = [reqs EXCEPT ![c].pc = "done",
                                 ![c].response = [status_code |-> 409]]
       ELSE reqs' = [reqs EXCEPT ![c].pc = "create"]
    /\ UNCHANGED <<jobs, tasks, patents, citations>>
    /\ UNCHANGED nonIngVars

\* "Create job record": session.add(job); await session.flush()
CreateJob(c) ==
    /\ reqs[c].pc = "create"
    /\ jobs' = Append(jobs, NewJob(reqs[c].source, reqs[c].since_date))
    /\ reqs' = [reqs EXCEPT ![c].pc = "dispatch", ![c].job = Len(jobs) + 1]
    /\ UNCHANGED <<tasks, patents, citations>>
    /\ UNCHANGED nonIngVars

\* "Trigger Celery task": the task is queued and the job set running, or an
\* exception (the broker fails, since_date is no date) sets the job failed;
\* then the flush and the response
Dispatch(c) ==
    \E delay_ok \in BOOLEAN :
        LET r  == reqs[c]
            ok == delay_ok /\ r.since_date # Some("no date")
        IN  /\ r.pc = "dispatch"
            /\ IF ok
               THEN /\ tasks' = Append(tasks, NewTask(r.source, r.max_patents))
                    /\ jobs' = [jobs EXCEPT ![r.job].celery_task_id = Some(Len(tasks) + 1),
                                            ![r.job].status = "running"]
               ELSE /\ tasks' = tasks
                    /\ jobs' = [jobs EXCEPT ![r.job].status = "failed",
                                            ![r.job].error_message = Some("error")]
            /\ reqs' = [reqs EXCEPT ![c].pc = "done",
                                    ![c].response = [job |-> jobs'[r.job]]]
            /\ UNCHANGED <<patents, citations>>
            /\ UNCHANGED nonIngVars

\* the client takes the response
Respond(c) ==
    /\ reqs[c].pc = "done"
    /\ reqs' = [reqs EXCEPT ![c] = NoRequest]
    /\ UNCHANGED <<jobs, tasks, patents, citations>>
    /\ UNCHANGED nonIngVars

\* every job queues at most one task
TaskIds == 1..MaxJobs

\* a worker takes the task: an unknown source raises at once
TaskStart(t) ==
    /\ t <= Len(tasks)
    /\ tasks[t].state = "PENDING"
    /\ tasks' = [tasks EXCEPT ![t].state =
                    IF tasks[t].source = "uspto" THEN "STARTED" ELSE "FAILURE"]
    /\ UNCHANGED <<jobs, reqs, patents, citations>>
    /\ UNCHANGED nonIngVars

\* one turn of "async for batch in ingester.fetch_patents(...)": the batch
\* is stored and counted; the task returns once max_patents is reached
TaskBatch(t) ==
    \E batch \in TaskBatches, flushed \in BOOLEAN :
        LET b       == store_patent_batch(patents, citations, batch)
            fetched == tasks[t].total_fetched + Len(batch)
            reached == /\ ~IsNone(tasks[t].max_patents)
                       /\ Val(tasks[t].max_patents) # 0
                       /\ fetched >= Val(tasks[t].max_patents)
        IN  /\ t <= Len(tasks)
            /\ tasks[t].state \in {"STARTED", "PROGRESS"}
            /\ tasks[t].batches < MaxBatches
            /\ patents' = IF flushed THEN b.patents ELSE patents
            /\ citations' = IF flushed THEN b.citations ELSE citations
            /\ tasks' = [tasks EXCEPT
                           ![t].total_inserted = @ + b.inserted,
                           ![t].total_updated  = @ + b.updated,
                           ![t].total_errors   = @ + b.errors,
                           ![t].total_fetched  = fetched,
                           ![t].batches        = @ + 1,
                           ![t].state = IF reached THEN "SUCCESS" ELSE "PROGRESS"]
            /\ UNCHANGED <<jobs, reqs>>
            /\ UNCHANGED nonIngVars

\* the ingester has no more batches: the task returns its totals
TaskReturn(t) ==
    /\ t <= Len(tasks)
    /\ tasks[t].state \in {"STARTED", "PROGRESS"}
    /\ tasks' = [tasks EXCEPT ![t].state = "SUCCESS"]
    /\ UNCHANGED <<jobs, reqs, patents, citations>>
    /\ UNCHANGED nonIngVars

\* the ingester raises: the task counts the error and raises
TaskRaise(t) ==
    /\ t <= Len(tasks)
    /\ tasks[t].state \in {"STARTED", "PROGRESS"}
    /\ tasks' = [tasks EXCEPT ![t].state = "FAILURE", ![t].total_errors = @ + 1]
    /\ UNCHANGED <<jobs, reqs, patents, citations>>
    /\ UNCHANGED nonIngVars

RouteStep(c) ==
    \/ CheckActive(c)
    \/ CreateJob(c)
    \/ Dispatch(c)
    \/ Respond(c)

TaskStep(t) ==
    \/ TaskStart(t)
    \/ TaskBatch(t)
    \/ TaskReturn(t)
    \/ TaskRaise(t)

IngNext ==
    \/ \E c \in Clients : Trigger(c)
    \/ \E c \in Clients : RouteStep(c)
    \/ \E t \in TaskIds : TaskStep(t)

\* a request that has arrived is handled to its response, and a task that
\* is queued is run to its end: the event loop and the worker keep going
SpecIngestion ==
    /\ IngInit
    /\ [][IngNext]_vars
    /\ \A c \in Clients : WF_vars(RouteStep(c))
    /\ \A t \in TaskIds : WF_vars(TaskStep(t))

---------------------------------------------------------------------------
(* Properties of the term calculator, checked under SpecTerm *)


IsExpirationCall == tcall.op = "calculate_expiration_date"

\* the patent types the utility term applies to: utility, plant, unknown, None
IsNonDesignType(patent_type) ==
    IsNone(patent_type) \/ Val(patent_type) \in {"utility", "plant", "unknown"}

\* filing_date + 7300 days + pta_days + pte_days, non-positive values adding nothing
UtilityTermSum(c) ==
    Val(c.filing_date) + 7300 + Max(c.pta_days, 0) + Max(c.pte_days, 0)

C3_DisclaimerCaps ==
    (IsExpirationCall /\ ~IsNone(tret.date) /\ ~IsNone(tcall.terminal_disclaimer_date))
    => Val(tret.date) <= Val(tcall.terminal_disclaimer_date)

IsStatusCall == tcall.op = "determine_patent_status"

\* C4: determine_patent_status returns "unknown" for a null expiration_date
\* and "expired" whenever today is strictly after expiration_date, for every
\* grant_date and maintenance_fees_paid.
C4_ExpirationDominates ==
    IsStatusCall
    => /\ IsNone(tcall.expiration_date) => tret.status = "unknown"
       /\ (~IsNone(tcall.expiration_date) /\ today > Val(tcall.expiration_date))
              => tret.status = "expired"

\* expired the day before, with an unpaid fee past its grace period
C4_Witness ==
    /\ IsStatusCall
    /\ ~IsNone(tcall.expiration_date)
    /\ today = Val(tcall.expiration_date) + 1
    /\ ~IsNone(tcall.grant_date)
    /\ tcall.maintenance_fees_paid = Some({})
    /\ today > calculate_maintenance_fee_dates(tcall.grant_date)[1].grace_period_end
    /\ tret.status = "expired"

IsFeeDatesCall == tcall.op = "calculate_maintenance_fee_dates"

\* C5: for a non-null grant_date calculate_maintenance_fee_dates returns
\* exactly 3 windows with fee years 3, 7, 11 in that order, strictly
\* increasing due dates and each grace_period_end strictly after its due_date;
\* for a null grant_date it returns the empty list.
C5_FeeSchedule ==
    IsFeeDatesCall
    => IF IsNone(tcall.grant_date)
       THEN tret.fees = << >>
       ELSE /\ Len(tret.fees) = 3
            /\ tret.fees[1].fee_year = 3 /\ tret.fees[2].fee_year = 7 /\ tret.fees[3].fee_year = 11
            /\ tret.fees[1].due_date < tret.fees[2].due_date
            /\ tret.fees[2].due_date < tret.fees[3].due_date
            /\ \A i \in 1..3 : tret.fees[i].grace_period_end > tret.fees[i].due_date

\* the schedule of a patent granted on day 1000
C5_Witness ==
    /\ IsFeeDatesCall
    /\ tcall.grant_date = Some(1000)
    /\ Len(tret.fees) = 3
    /\ tret.fees[1].due_date = 2278

\* the patent types calculate_expiration_date treats as design patents
IsDesignType(patent_type) ==
    ~IsNone(patent_type) /\ Val(patent_type) \in {"design", "des", "Design", "DESIGN", "DES"}

\* grant_date + 6205 days + pta_days + pte_days, an adjustment that is not
\* positive adding nothing
EstimatedTermSum(c) ==
    Val(c.grant_date) + 6205 + Max(c.pta_days, 0) + Max(c.pte_days, 0)

\* C13: for a non-design patent type with a null filing_date and a non-null
\* grant_date, calculate_expiration_date takes grant_date - 1095 days as the
\* filing date: it returns grant_date + 6205 days + pta_days + pte_days, or
\* the terminal_disclaimer_date when that is earlier; with filing_date and
\* grant_date both null it returns null for every patent type and adjustment.
C13_EstimatedFiling ==
    (IsExpirationCall /\ IsNone(tcall.filing_date))
    => IF IsNone(tcall.grant_date)
       THEN tret.date = None
       ELSE ~IsDesignType(tcall.patent_type)
            => tret.date = IF ~IsNone(tcall.terminal_disclaimer_date)
                              /\ Val(tcall.terminal_disclaimer_date) < EstimatedTermSum(tcall)
                           THEN tcall.terminal_disclaimer_date
                           ELSE Some(EstimatedTermSum(tcall))

\* a plant patent granted on day 1000 with no filing date and 30 days of
\* each adjustment: day 1000 + 6205 + 60
C13_Witness ==
    /\ IsExpirationCall
    /\ IsNone(tcall.filing_date)
    /\ tcall.grant_date = Some(1000)
    /\ tcall.patent_type = Some("plant")
    /\ tcall.pta_days = 30
    /\ tcall.pte_days = 30
    /\ tcall.terminal_disclaimer_date = Some(7330)
    /\ tret.date = Some(7265)

\* a design patent granted on 2020-01-01
IsScenario3 ==
    /\ IsExpirationCall
    /\ tcall.patent_type = Some("design")
    /\ tcall.grant_date = Some(Date(2020, 1, 1))

\* C16 as stated: calculate_expiration_date(filing_date=any,
\* grant_date=2020-01-01, patent_type='design') returns the calendar date
\* 2034-06-18.
C16_AsStated ==
    IsScenario3 => YearMonthDay(Val(tret.date)) = <<2034, 6, 18>>

\* C16: calculate_expiration_date(filing_date=any, grant_date=2020-01-01,
\* patent_type='design') returns 2020-01-01 + 5475 days, which is the
\* calendar date 2034-12-28.
C16_Scenario3 ==
    IsScenario3
    => /\ tret.date = Some(Date(2020, 1, 1) + 5475)
       /\ YearMonthDay(Val(tret.date)) = <<2034, 12, 28>>

\* the call of scenario 3 with a filing date and a terminal disclaimer
C16_Witness ==
    /\ IsScenario3
    /\ tcall.filing_date = Some(1000)
    /\ tcall.terminal_disclaimer_date = Some(9000)
    /\ tret.date = Some(Date(2034, 12, 28))

\* C17: design (and plant) patents have no maintenance fee windows: for a
\* design or plant patent with any grant_date the term calculator generates
\* no fee windows, and determine_patent_status never returns 'lapsed' for it
\* on account of an unpaid maintenance fee.
C17_NoDesignFees ==
    /\ (IsFeeDatesCall /\ tcall.patent_type \in {Some("design"), Some("plant")})
       => tret.fees = << >>
    /\ (IsStatusCall /\ tcall.patent_type \in {Some("design"), Some("plant")})
       => tret.status # "lapsed"

\* some fee window of the schedule of grant_date has today strictly after
\* its grace_period_end and its fee_year not among the paid ones
SomeWindowUnpaidPastGrace(c) ==
    LET schedule == calculate_maintenance_fee_dates(c.grant_date)
    IN  \E i \in 1..Len(schedule) :
            /\ c.today > schedule[i].grace_period_end
            /\ schedule[i].fee_year \notin Val(c.maintenance_fees_paid)

\* C22: for a non-null expiration_date with today <= expiration_date (today
\* equal to it counts as not expired) determine_patent_status returns
\* "lapsed" if and only if grant_date is non-null, maintenance_fees_paid is
\* provided (an empty list counts as provided) and some fee window of
\* calculate_maintenance_fee_dates(grant_date) has today strictly after its
\* grace_period_end while its fee_year is not paid; otherwise "active".
C22_LapsedIff ==
    (IsStatusCall /\ ~IsNone(tcall.expiration_date)
        /\ tcall.today <= Val(tcall.expiration_date))
    => LET lapsed == /\ ~IsNone(tcall.grant_date)
                     /\ ~IsNone(tcall.maintenance_fees_paid)
                     /\ SomeWindowUnpaidPastGrace(tcall)
       IN  /\ lapsed => tret.status = "lapsed"
           /\ ~lapsed => tret.status = "active"

\* on the expiration day itself, one day after the grace period of the
\* first fee ended, with an empty list of paid fees: lapsed
C22_Witness ==
    /\ IsStatusCall
    /\ tcall.expiration_date = Some(tcall.today)
    /\ tcall.grant_date = Some(1000)
    /\ tcall.maintenance_fees_paid = Some({})
    /\ tcall.today = calculate_maintenance_fee_dates(Some(1000))[1].grace_period_end + 1
    /\ tret.status = "lapsed"

\* on the last day of the grace period the unpaid fee does not lapse the patent
C22_LastGraceDay ==
    /\ IsStatusCall
    /\ tcall.expiration_date = Some(tcall.today)
    /\ tcall.grant_date = Some(1000)
    /\ tcall.maintenance_fees_paid = Some({})
    /\ tcall.today = calculate_maintenance_fee_dates(Some(1000))[1].grace_period_end
    /\ tret.status = "active"

\* every returned window has grace_period_end = due_date + grace days and
\* window_open = due_date - 180 days
WindowsAround(grace) ==
    (IsFeeDatesCall /\ ~IsNone(tcall.grant_date))
    => \A i \in 1..Len(tret.fees) :
           /\ tret.fees[i].grace_period_end = tret.fees[i].due_date + grace
           /\ tret.fees[i].window_open = tret.fees[i].due_date - 180

\* C23 (as stated): for every non-null grant_date each window has
\* grace_period_end = due_date + round(6 x 30.44) = due_date + 183 days and
\* window_open = due_date - 180 days.
C23_AsStated == WindowsAround(183)

\* C23 (amended): for every non-null grant_date each window has
\* grace_period_end = due_date + int(6 x 30.44) = due_date + 182 days (182.64
\* truncated, not rounded) and window_open = due_date - 180 days.
C23_GraceTruncated == WindowsAround(182)

\* the three windows of a patent granted on 2020-01-01: the first is due on
\* 2023-07-02 and its grace period ends on 2023-12-31
C23_Witness ==
    /\ IsFeeDatesCall
    /\ tcall.grant_date = Some(Date(2020, 1, 1))
    /\ Len(tret.fees) = 3
    /\ tret.fees[1].due_date = Date(2023, 7, 2)
    /\ tret.fees[1].grace_period_end = Date(2023, 12, 31)
    /\ tret.fees[1].window_open = Date(2023, 1, 3)

---------------------------------------------------------------------------
(* Properties of hybrid search, checked under SpecSearch *)

IsHybridCall == scall.op = "hybrid_search"

\* hybrid_search took the fusion path
IsFusedCall == IsHybridCall /\ slocals.fused

PatentNumbers(results) == { results[i].patent_number : i \in 1..Len(results) }

\* 0-indexed rank of patent p in a result list, -1 when it is not in it
RankIn(results, p) ==
    IndexOf([i \in 1..Len(results) |-> results[i].patent_number], p)

\* sum over the lists p is in of weight / (60 + r + 1), as a multiple of
\* 1 / (WeightUnit * ScoreUnit)
ClosedFormScore(p) ==
    LET r_ft  == RankIn(slocals.fulltext_results, p)
        r_sem == RankIn(slocals.semantic_results, p)
        w     == scall.semantic_weight
    IN  (IF r_ft >= 0 THEN ((WeightUnit - w) * ScoreUnit) \div (60 + r_ft + 1) ELSE 0)
        + (IF r_sem >= 0 THEN (w * ScoreUnit) \div (60 + r_sem + 1) ELSE 0)

FusedScoreIsSum ==
    IsFusedCall
    => /\ DOMAIN slocals.rrf_scores
              = PatentNumbers(slocals.fulltext_results)
                    \union PatentNumbers(slocals.semantic_results)
       /\ \A p \in DOMAIN slocals.rrf_scores :
              slocals.rrf_scores[p] = ClosedFormScore(p)

\* the fused score of a patent at rank 0 of one list and absent from the other
ScoreAloneInFulltext(w) ==
    RRFScores(<<PatentToResult("US-001", 0)>>, << >>, w).score["US-001"]

ScoreAloneInSemantic(w) ==
    RRFScores(<< >>, <<PatentToResult("US-001", 0)>>, w).score["US-001"]

IsTopOfBoth(p) ==
    /\ RankIn(slocals.fulltext_results, p) = 0
    /\ RankIn(slocals.semantic_results, p) = 0

\* for the weights of the set, a patent at rank 0 in both lists scores
\* strictly higher than a patent at rank 0 in only one list
AgreementStrictlyHigher(weights) ==
    (IsFusedCall /\ scall.semantic_weight \in weights)
    => \A p \in Patents :
           IsTopOfBoth(p)
           => /\ slocals.rrf_scores[p] > ScoreAloneInFulltext(scall.semantic_weight)
              /\ slocals.rrf_scores[p] > ScoreAloneInSemantic(scall.semantic_weight)

\* at weight 0 the full-text list alone gives the same score, at weight 1 the
\* semantic list alone does
AgreementTiesAtEndpoints ==
    IsFusedCall
    => \A p \in Patents :
           IsTopOfBoth(p)
           => /\ scall.semantic_weight = 0
                    => slocals.rrf_scores[p] = ScoreAloneInFulltext(0)
              /\ scall.semantic_weight = WeightUnit
                    => slocals.rrf_scores[p] = ScoreAloneInSemantic(WeightUnit)

\* semantic_weight = 0.6: A at rank 0 of both lists scores 1/61, B at
\* full-text rank 1 only scores 0.4/62, and A is sorted before B
IsScenario4(a, b) ==
    /\ IsFusedCall
    /\ scall.semantic_weight = 6
    /\ IsTopOfBoth(a)
    /\ RankIn(slocals.fulltext_results, b) = 1
    /\ RankIn(slocals.semantic_results, b) = -1

Scenario4 ==
    \A a, b \in Patents :
        IsScenario4(a, b)
        => /\ slocals.rrf_scores[a] * 61 = WeightUnit * ScoreUnit
           /\ slocals.rrf_scores[b] * 62 = 4 * ScoreUnit
           /\ IndexOf(slocals.sorted_patents, a) < IndexOf(slocals.sorted_patents, b)

\* C6 (as stated): the fused score is the sum of weight / (60 + r + 1) over
\* the lists the patent is in; for every semantic_weight in [0, 1] a patent
\* at rank 0 in both lists scores strictly higher than one at rank 0 in only
\* one list; with weight 0.6, A (rank 0 in both, 1/61) ranks above B
\* (full-text rank 1 only, 0.4/62).
C6_AsStated ==
    /\ FusedScoreIsSum
    /\ AgreementStrictlyHigher(0..WeightUnit)
    /\ Scenario4

\* C6 (amended): the same, the strict inequality holding for
\* 0 < semantic_weight < 1 and the scores being equal at the endpoint where
\* the other list's weight is 0.
C6_FusedScore ==
    /\ FusedScoreIsSum
    /\ AgreementStrictlyHigher(1..(WeightUnit - 1))
    /\ AgreementTiesAtEndpoints
    /\ Scenario4

\* scenario 4 happens: a patent leads both lists, another is second in the
\* full-text list and not in the semantic list
C6_Witness ==
    /\ IsScenario4("US-002", "US-001")
    /\ Len(slocals.semantic_results) >= 2

\* C7: with no embedded patent, hybrid_search issues no semantic query and no
\* embedding call, calls fulltext_search exactly once with the same query,
\* filters, page and per_page, and returns exactly that call's result, for
\* every semantic_weight.
C7_Fallback ==
    (IsHybridCall /\ embedded = {})
    => /\ ~slocals.fused
       /\ \A i \in 1..Len(slog) :
              slog[i].fn \notin {"semantic_search", "generate_embedding"}
       /\ Cardinality({ i \in 1..Len(slog) : slog[i].fn = "fulltext_search" }) = 1
       /\ \A i \in 1..Len(slog) :
              slog[i].fn = "fulltext_search"
              => /\ slog[i].query = scall.query
                 /\ slog[i].filters = scall.filters
                 /\ slog[i].page = scall.page
                 /\ slog[i].per_page = scall.per_page
                 /\ sret = fulltext_search(ftOrder, slog[i].query, slog[i].filters,
                                           slog[i].page, slog[i].per_page)

\* a fallback for page 2 under a country filter that returns a row
C7_Witness ==
    /\ IsHybridCall
    /\ embedded = {}
    /\ scall.page = 2
    /\ scall.filters = Some("US")
    /\ scall.semantic_weight = WeightUnit
    /\ Len(sret.results) = 1
    /\ sret.total = 3

\* C8: on the fusion path the total is the number of distinct patent numbers
\* across the two lists fetched at page 1 with 3 x per_page entries; it does
\* not depend on the requested page and never exceeds the combined length of
\* the two fetched lists.
C8_Total ==
    IsFusedCall
    => /\ slocals.fulltext_results
              = fulltext_search(ftOrder, scall.query, scall.filters,
                                1, 3 * scall.per_page).results
       /\ slocals.semantic_results
              = semantic_search(semOrder, embedded, scall.query, scall.filters,
                                1, 3 * scall.per_page).results
       /\ sret.total = Cardinality(PatentNumbers(slocals.fulltext_results)
                                       \union PatentNumbers(slocals.semantic_results))
       /\ sret.total <= Len(slocals.fulltext_results) + Len(slocals.semantic_results)
       /\ \A pg \in 1..MaxPage :
              hybrid_search(ftOrder, semOrder, embedded, scall.query, scall.filters,
                            pg, scall.per_page, scall.semantic_weight).result.total
                  = sret.total

\* page 2 of a search whose lists overlap: the total is neither the sum of
\* the source totals nor the combined length of the fetched lists
C8_Witness ==
    /\ IsFusedCall
    /\ scall.page = 2
    /\ scall.per_page = 1
    /\ sret.total = 4
    /\ slocals.ft_total + slocals.sem_total = 8
    /\ Len(slocals.fulltext_results) + Len(slocals.semantic_results) = 6

\* C15: when patents with embeddings exist but semantic search cannot run,
\* hybrid_search does not fail: it returns the full-text-only result for the
\* same query, filters, page and per_page, as in the zero-embeddings case.
C15_SemanticFailureFallsBack ==
    (IsHybridCall /\ EmbeddingCount(embedded) # 0 /\ ~scall.semantic_ok)
    => sret = fulltext_search(ftOrder, scall.query, scall.filters, scall.page,
                              scall.per_page)

\* the patent numbers of a result list, in order
NumbersOf(results) == [ i \in 1..Len(results) |-> results[i].patent_number ]

\* what the same hybrid_search call returns when asked for another page
OtherPage(page) ==
    hybrid_search(ftOrder, semOrder, embedded, scall.query, scall.filters, page,
                  scall.per_page, scall.semantic_weight).result.results

\* C20: in hybrid_search (when embeddings exist) both source lists are
\* fetched at page 1 with 3 x per_page entries whatever page is requested,
\* all distinct patents are sorted by fused score descending, and only then
\* is the page cut: the results are the elements at positions
\* (page-1)*per_page up to page*per_page of that sorted list, so they are in
\* non-increasing fused-score order within a page and across consecutive
\* pages, and no patent is returned on two different pages of the same query.
C20_PaginateAfterFusion ==
    IsFusedCall
    => LET sorted == slocals.sorted_patents
           score  == slocals.rrf_scores
           first  == (scall.page - 1) * scall.per_page
       IN  /\ slocals.fulltext_results
                  = fulltext_search(ftOrder, scall.query, scall.filters,
                                    1, 3 * scall.per_page).results
           /\ slocals.semantic_results
                  = semantic_search(semOrder, embedded, scall.query, scall.filters,
                                    1, 3 * scall.per_page).results
           /\ { sorted[i] : i \in 1..Len(sorted) }
                  = PatentNumbers(slocals.fulltext_results)
                        \union PatentNumbers(slocals.semantic_results)
           /\ \A i, j \in 1..Len(sorted) :
                  /\ i < j => score[sorted[i]] >= score[sorted[j]]
                  /\ sorted[i] = sorted[j] => i = j
           /\ NumbersOf(sret.results)
                  = SubSeq(sorted, first + 1, Min(first + scall.per_page, Len(sorted)))
           /\ \A page \in 1..(MaxPage + 1) :
                  LET other == NumbersOf(OtherPage(page))
                  IN  /\ other = SubSeq(sorted, (page - 1) * scall.per_page + 1,
                                        Min(page * scall.per_page, Len(sorted)))
                      /\ page # scall.page
                         => PatentNumbers(OtherPage(page)) \cap PatentNumbers(sret.results) = {}
                      /\ page = scall.page + 1
                         => \A i \in 1..Len(sret.results), j \in 1..Len(other) :
                                score[sret.results[i].patent_number] >= score[other[j]]

\* page 2 of 2 per page over four fused patents, the second list ranked
\* differently from the first: the page holds the third and fourth patents
\* of the sorted list
C20_Witness ==
    /\ IsFusedCall
    /\ scall.page = 2
    /\ scall.per_page = 2
    /\ scall.semantic_weight = 6
    /\ Len(slocals.sorted_patents) = 4
    /\ Len(sret.results) = 2
    /\ NumbersOf(slocals.fulltext_results) # NumbersOf(slocals.semantic_results)
    /\ NumbersOf(sret.results) = SubSeq(slocals.sorted_patents, 3, 4)
    /\ slocals.rrf_scores[slocals.sorted_patents[2]]
           > slocals.rrf_scores[slocals.sorted_patents[3]]

\* the largest fused score of the whole fused set, 0 when the set is empty
MaxFusedScore ==
    LET all == { slocals.rrf_scores[p] : p \in DOMAIN slocals.rrf_scores }
    IN  IF all = {} THEN 0 ELSE CHOOSE m \in all : \A x \in all : x <= m

\* q / 10000 is a nearest multiple of 1/10000 to score / max_rrf: with
\* 10000 * score = whole * max_rrf + rest, taken in two steps of 100, the
\* distance |q * max_rrf - 10000 * score| is at most max_rrf / 2
IsRoundedQuotient(q, score, max_rrf) ==
    LET hi    == (100 * score) \div max_rrf
        mid   == (100 * score) % max_rrf
        lo    == (100 * mid) \div max_rrf
        rest  == (100 * mid) % max_rrf
        whole == 100 * hi + lo
    IN  \/ q = whole /\ 2 * rest <= max_rrf
        \/ q = whole + 1 /\ 2 * (max_rrf - rest) <= max_rrf

\* C21: every relevance_score reported by hybrid_search lies in [0, 1] and is
\* the patent's fused score divided by the maximum fused score of the whole
\* fused set (rounded to 4 places), not of the page, so the first result of
\* page 1 scores 1.0 when that maximum is positive; when the maximum is 0 or
\* the set is empty nothing is divided and every reported score is 0.0; for
\* every semantic_weight in [0, 1], 0 and 1 included.
C21_Normalized ==
    IsFusedCall
    => /\ \A i \in 1..Len(sret.results) :
              LET q == sret.results[i].relevance_score
                  f == slocals.rrf_scores[sret.results[i].patent_number]
              IN  /\ q \in 0..10000
                  /\ MaxFusedScore > 0 => IsRoundedQuotient(q, f, MaxFusedScore)
                  /\ MaxFusedScore = 0 => q = 0
       /\ (MaxFusedScore > 0 /\ scall.page = 1 /\ Len(sret.results) > 0)
          => sret.results[1].relevance_score = 10000
       /\ DOMAIN slocals.rrf_scores = {} => sret.results = << >>

\* page 2 of a fused search: the best patent of the page scores below 1.0,
\* being divided by the score of a patent that is on page 1
C21_Witness ==
    /\ IsFusedCall
    /\ scall.page = 2
    /\ Len(sret.results) = 2
    /\ sret.results[1].relevance_score \in 1..9999
    /\ slocals.rrf_scores[sret.results[1].patent_number] < MaxFusedScore
    /\ sret.results[2].relevance_score < sret.results[1].relevance_score

\* every fused patent was found by the zero-weighted list only: the maximum
\* fused score is 0 and the reported scores are 0.0
C21_ZeroMaximum ==
    /\ IsFusedCall
    /\ Len(sret.results) > 0
    /\ MaxFusedScore = 0
    /\ scall.semantic_weight = 0
    /\ sret.results[1].relevance_score = 0

\* no patent passes the filters: the fused set is empty
C21_EmptySet ==
    /\ IsFusedCall
    /\ slocals.sorted_patents = << >>
    /\ sret.results = << >>

---------------------------------------------------------------------------
(* Properties of the white-space classifier, checked under SpecWhitespace *)

IsClassifyCall == wcall.op = "_classify_opportunity"

OpportunityLabels ==
    {"abandoned_goldmine", "dormant", "consolidation", "emerging_gap", "minor_gap"}

\* the rules of the classification, thresholds 0.7, 0.5, 0.3 in hundredths
Rule1 == wcall.decline_ratio * 10 > 7 * RatioUnit /\ wcall.high_impact >= 3

Rule2 == wcall.decline_ratio * 10 > 5 * RatioUnit /\ wcall.recent < 5

Rule3 == wcall.high_impact >= 5 /\ wcall.decline_ratio * 10 > 3 * RatioUnit

Rule4 == wcall.decline_ratio * 10 > 3 * RatioUnit

\* C9: _classify_opportunity returns, for every decline_ratio >= 0,
\* high_impact >= 0 and recent >= 0, exactly one of the five labels: the
\* label of the first rule that matches, in the order (1) to (5).
C9_Classification ==
    IsClassifyCall
    => /\ wret.label \in OpportunityLabels
       /\ wret.label = "abandoned_goldmine" <=> Rule1
       /\ wret.label = "dormant"            <=> (~Rule1 /\ Rule2)
       /\ wret.label = "consolidation"      <=> (~Rule1 /\ ~Rule2 /\ Rule3)
       /\ wret.label = "emerging_gap"       <=> (~Rule1 /\ ~Rule2 /\ ~Rule3 /\ Rule4)
       /\ wret.label = "minor_gap"          <=> (~Rule1 /\ ~Rule2 /\ ~Rule3 /\ ~Rule4)

\* rules (2), (3) and (4) all match and rule (1) does not: the first wins
C9_Witness ==
    /\ IsClassifyCall
    /\ wcall.decline_ratio = 51
    /\ wcall.high_impact = 5
    /\ wcall.recent = 4
    /\ wret.label = "dormant"

IsCoverageCall == wcall.op = "get_coverage_analysis"

\* the buckets returned, and the largest patent_count among them
CoverageAreas == wret.coverage_areas

MaxReturnedCount ==
    CHOOSE c \in { CoverageAreas[i].patent_count : i \in 1..Len(CoverageAreas) } :
        \A i \in 1..Len(CoverageAreas) : CoverageAreas[i].patent_count <= c

\* C14: in get_coverage_analysis, whenever more than one bucket is returned,
\* the density_score (patent_count over the mean patent_count of the returned
\* buckets, reported to two decimals) of the bucket with the highest
\* patent_count is at least 1.0, and avg_patents_per_area is the mean
\* patent_count over exactly the returned buckets (reported to one decimal).
C14_Density ==
    (IsCoverageCall /\ Len(CoverageAreas) > 1)
    => /\ \A i \in 1..Len(CoverageAreas) :
              /\ CoverageAreas[i].density_score
                     = RoundRatio(CoverageAreas[i].patent_count * Len(CoverageAreas),
                                  SumOf(CoverageAreas, "patent_count"), 100)
              /\ CoverageAreas[i].patent_count = MaxReturnedCount
                 => CoverageAreas[i].density_score >= 100
       /\ wret.total_areas = Len(wcall.rows)
       /\ wret.avg_patents_per_area
              = RoundRatio(SumOf(CoverageAreas, "patent_count"), Len(CoverageAreas), 10)

\* three buckets of 4, 1 and 1 patents: the mean is 2.0 and the first bucket's
\* density is 2.0
C14_Witness ==
    /\ IsCoverageCall
    /\ Len(CoverageAreas) = 3
    /\ CoverageAreas[1].patent_count = 4
    /\ CoverageAreas[2].patent_count = 1
    /\ CoverageAreas[3].patent_count = 1
    /\ CoverageAreas[1].density_score = 200
    /\ CoverageAreas[3].density_score = 50
    /\ wret.avg_patents_per_area = 20

IsOverviewCall == wcall.op = "get_section_overview"

\* C19: for every set of section rows, the empty one included,
\* get_section_overview reports total_patents equal to the sum of the
\* per-section total_patents (0 when there are no sections), and each
\* section's market_share is its total_patents over that grand total, as a
\* percentage (reported to one decimal).
C19_Overview ==
    IsOverviewCall
    => /\ wret.total_patents = SumOf(wret.sections, "total_patents")
       /\ \A i \in 1..Len(wret.sections) :
              wret.sections[i].market_share
                  = RoundRatio(wret.sections[i].total_patents * 100,
                               SumOf(wret.sections, "total_patents"), 10)

----------------------------------------------------------------------------
(* Properties of the white-space analyses, checked under SpecWhitespace *)

IsWhiteSpacesCall == wcall.op = "get_white_spaces"

\* q / unit is a nearest multiple of 1 / unit to num / den
IsNearest(q, num, den, unit) ==
    /\ 2 * (q * den - unit * num) <= den
    /\ 2 * (unit * num - q * den) <= den

\* (h / 5 - r / 2) / (h / 5) = (2h - 5r) / (2h), not below 0
StatedDecline(row) ==
    [ num |-> Max(0, 2 * Val(row.historical_count) - 5 * Val(row.recent_count)),
      den |-> 2 * Val(row.historical_count) ]

\* 0.6 x decline_ratio + 0.4 x min(1, hi / 5) over the denominator 50h
StatedGap(row) ==
    [ num |-> 15 * StatedDecline(row).num
                  + 4 * Val(row.historical_count)
                      * Min(5, Val(row.high_impact_historical)),
      den |-> 50 * Val(row.historical_count) ]

\* the rows whose gap_score is at least min_gap_score
PassingRows ==
    { i \in 1..Len(wcall.rows) :
        1000 * StatedGap(wcall.rows[i]).num
            >= wcall.min_gap_score * StatedGap(wcall.rows[i]).den }

\* the row a returned white space was computed from
RowOf(entry) == CHOOSE i \in 1..Len(wcall.rows) : wcall.rows[i].cpc_subclass = entry.cpc_code

\* C26: for bucket rows with historical count h >= 5, recent count r >= 0 and
\* high-impact count hi >= 0, get_white_spaces computes decline_ratio =
\* max(0, (h/5 - r/2) / (h/5)), impact_factor = min(1, hi/5) and gap_score =
\* 0.6 x decline_ratio + 0.4 x impact_factor, both within [0, 1] (reported
\* rounded to 3 places); it returns only buckets with gap_score >=
\* min_gap_score, in non-increasing gap_score order, at most limit of them,
\* and total_found is the number of buckets passing the threshold before the
\* limit is applied.
C26_WhiteSpaces ==
    IsWhiteSpacesCall
    => LET found == wret.white_spaces
       IN  /\ wret.total_found = Cardinality(PassingRows)
           /\ Len(found) = Min(wcall.limit, Cardinality(PassingRows))
           /\ \A k \in 1..Len(found) :
                  LET row == wcall.rows[RowOf(found[k])]
                  IN  /\ RowOf(found[k]) \in PassingRows
                      /\ found[k].decline_ratio \in 0..1000
                      /\ found[k].gap_score \in 0..1000
                      /\ IsNearest(found[k].decline_ratio, StatedDecline(row).num,
                                   StatedDecline(row).den, 1000)
                      /\ IsNearest(found[k].gap_score, StatedGap(row).num,
                                   StatedGap(row).den, 1000)
                      /\ found[k].gap_score >= wcall.min_gap_score
           /\ \A j, k \in 1..Len(found) :
                  /\ j < k => found[j].gap_score >= found[k].gap_score
                  /\ found[j].cpc_code = found[k].cpc_code => j = k
           /\ \A i \in PassingRows :
                  (\A k \in 1..Len(found) : RowOf(found[k]) # i)
                  => \A k \in 1..Len(found) :
                         IsNearest(found[k].gap_score, StatedGap(wcall.rows[i]).num,
                                   StatedGap(wcall.rows[i]).den, 1000)
                         \/ 1000 * StatedGap(wcall.rows[i]).num
                                < found[k].gap_score * StatedGap(wcall.rows[i]).den

\* three subclasses at the default threshold with a limit of 1: the first
\* row is below the threshold, the third scores highest and is the one
\* returned, and total_found counts the second as well
C26_Witness ==
    /\ IsWhiteSpacesCall
    /\ wcall.min_gap_score = 300
    /\ wcall.limit = 1
    /\ Len(wcall.rows) = 3
    /\ PassingRows = {2, 3}
    /\ wret.total_found = 2
    /\ Len(wret.white_spaces) = 1
    /\ wret.white_spaces[1].cpc_code = BucketCodes[3]
    /\ wret.white_spaces[1].gap_score = 1000
    /\ wret.white_spaces[1].decline_ratio = 1000

\* (recent / 2 - older / (years - 2)) / (older / (years - 2)), numerator and
\* denominator both multiplied by 2 * (years - 2)
StatedGrowth(patent_count, recent_count, years) ==
    LET older == patent_count - recent_count
    IN  [num |-> recent_count * (years - 2) - 2 * older, den |-> 2 * older]

\* C27: for every coverage bucket get_coverage_analysis reports growth_rate =
\* (recent_annualized - older_annualized) / older_annualized, with
\* recent_annualized = recent_count / 2 and older_annualized =
\* (patent_count - recent_count) / (years - 2), rounded to 3 places, and
\* reports 0 when years <= 2 or when the older count is 0.
C27_GrowthRate ==
    IsCoverageCall
    => \A i \in 1..Len(wret.coverage_areas) :
           LET area  == wret.coverage_areas[i]
               older == area.patent_count - area.recent_count
               g     == StatedGrowth(area.patent_count, area.recent_count, wcall.years)
           IN  /\ (wcall.years <= 2 \/ older = 0) => area.growth_rate = 0
               /\ (wcall.years > 2 /\ older > 0)
                  => IsNearest(area.growth_rate, g.num, g.den, 1000)

IsCrossDomainCall == wcall.op = "get_cross_domain_opportunities"

\* the class is on at least one patent of the source area
CoOccurs(cpc_class) ==
    \E i \in 1..Len(wcall.groups) : wcall.groups[i].adjacent_cpc = cpc_class

\* the group of a class that co-occurs with the source
GroupOf(cpc_class) ==
    wcall.groups[CHOOSE i \in 1..Len(wcall.groups) :
                     wcall.groups[i].adjacent_cpc = cpc_class]

\* the row of the high-activity query an opportunity was computed from
AreaOf(opportunity) ==
    wcall.potential_areas[CHOOSE i \in 1..Len(wcall.potential_areas) :
                              wcall.potential_areas[i].cpc_class = opportunity.cpc_code]

\* min(1, (combo average / candidate average) x 0.5) as a fraction
StatedLift(combo_avg, candidate_avg) ==
    [num |-> Min(combo_avg, 2 * candidate_avg), den |-> 2 * candidate_avg]

\* the scores lie in [0, 1], fall along the list, and the list has at most
\* max_results entries
OpportunitiesRanked ==
    IsCrossDomainCall
    => /\ Len(wret.opportunities) <= wcall.max_results
       /\ \A j, k \in 1..Len(wret.opportunities) :
              /\ wret.opportunities[j].opportunity_score \in 0..1000
              /\ j < k => wret.opportunities[j].opportunity_score
                              >= wret.opportunities[k].opportunity_score

\* C28: for every high-activity candidate prefix of
\* get_cross_domain_opportunities, if it already co-occurs with the source
\* prefix its opportunity_score is min(1, (avg_citations_of_combo /
\* avg_citations_of_candidate_alone) x 0.5) with status 'emerging', otherwise
\* min(1, 0.5 + patent_count/1000) with status 'untapped'; every score lies
\* in [0, 1], the opportunities are in non-increasing score order and number
\* at most max_results.
C28_OpportunityScore ==
    /\ OpportunitiesRanked
    /\ IsCrossDomainCall
       => \A k \in 1..Len(wret.opportunities) :
              LET o    == wret.opportunities[k]
                  area == AreaOf(o)
                  alone == FloatOrZero(area.avg_citations)
              IN  IF CoOccurs(o.cpc_code)
                  THEN /\ o.status = "emerging"
                       /\ alone > 0
                          => IsNearest(o.opportunity_score,
                                 StatedLift(FloatOrZero(GroupOf(o.cpc_code).avg_citations),
                                            alone).num,
                                 StatedLift(FloatOrZero(GroupOf(o.cpc_code).avg_citations),
                                            alone).den, 1000)
                  ELSE /\ o.status = "untapped"
                       /\ o.opportunity_score = Min(1000, 500 + area.patent_count)

\* the status and the score follow from the rows the co-occurrence query
\* returned (two patents at least, the first 2 x max_results classes), the
\* lift being taken over max(candidate average, 1)
C28_FromReturnedCombos ==
    IsCrossDomainCall
    => \A k \in 1..Len(wret.opportunities) :
           LET o        == wret.opportunities[k]
               area     == AreaOf(o)
               alone    == FloatOrZero(area.avg_citations)
               returned == CooccurrenceQuery(wcall.groups, wcall.max_results)
               existing == ExistingCombo(returned, o.cpc_code)
           IN  IF ~IsNone(existing)
               THEN /\ o.status = "emerging"
                    /\ IsNearest(o.opportunity_score,
                                 Min(Val(existing).avg_citations, 2 * Max(alone, 1000)),
                                 2 * Max(alone, 1000), 1000)
               ELSE /\ o.status = "untapped"
                    /\ o.opportunity_score = Min(1000, 500 + area.patent_count)


\* three classes are each on two patents of the source area and max_results
\* is 1: the co-occurrence query returns the first two, and the third, a
\* high-activity candidate, is reported as untapped with no existing
\* combination
C28_TruncatedCombos ==
    /\ IsCrossDomainCall
    /\ wcall.max_results = 1
    /\ Len(wcall.groups) = 3
    /\ \A i \in 1..3 : wcall.groups[i].combo_count = 2
    /\ Len(wret.opportunities) = 1
    /\ CoOccurs(wret.opportunities[1].cpc_code)
    /\ wret.opportunities[1].status = "untapped"
    /\ wret.opportunities[1].existing_combinations = 0
    /\ wret.opportunities[1].opportunity_score = 550

---------------------------------------------------------------------------
(* Properties of the citation graph walker, checked under SpecCitation *)

\* get_citation_network has returned a graph
HasNetwork == cpc = "done" /\ cret # NotFound

\* a stored citation row links the two patents, in either direction
Linked(p, q) ==
    \E i \in 1..Len(citations) :
        \/ citations[i].citing = p /\ citations[i].cited = Some(q)
        \/ citations[i].citing = q /\ citations[i].cited = Some(p)

\* no patent has more citation rows, made or received, than a lookup fetches
WithinFanOut ==
    \A p \in StoredPatents :
        /\ Cardinality({ i \in 1..Len(citations) : citations[i].citing = p })
               <= FanOutLimit
        /\ Cardinality({ i \in 1..Len(citations) : citations[i].cited = Some(p) })
               <= FanOutLimit

NetworkShape ==
    HasNetwork
    => LET nodes == cret.nodes
           n     == Len(nodes)
       IN  /\ n <= ccall.max_nodes
           /\ n = cret.total_nodes
           /\ \E i \in 1..n : nodes[i] = ToNode(ccall.patent_number, 0)
           /\ \A i, j \in 1..n :
                  nodes[i].patent_number = nodes[j].patent_number => i = j
           /\ \A i \in 1..n :
                  nodes[i].patent_number # ccall.patent_number
                  => /\ nodes[i].depth \in 1..ccall.depth
                     /\ \E j \in 1..n : /\ nodes[j].depth = nodes[i].depth - 1
                                        /\ Linked(nodes[j].patent_number,
                                                  nodes[i].patent_number)
           /\ WithinFanOut
                  => \A i, j \in 1..n :
                         Linked(nodes[i].patent_number, nodes[j].patent_number)
                         => nodes[i].depth <= nodes[j].depth + 1

\* C10: for every citation store (cycles included), existing target,
\* depth >= 0 and max_nodes >= 1, get_citation_network terminates and returns
\* a graph of at most max_nodes nodes in which the target has depth 0, every
\* other node has the depth, between 1 and the depth parameter, of the BFS
\* level at which it was first reached, and no patent appears as two nodes.
C10_Network ==
    /\ []NetworkShape
    /\ (cpc # "idle") ~> (cpc = "done")

\* a walk of depth 2 through a store with the cycles B -> C -> B and
\* A -> B -> A
C10_Witness ==
    /\ HasNetwork
    /\ ccall.depth = 2
    /\ ccall.max_nodes = 3
    /\ cret.nodes = <<ToNode("US-A", 0), ToNode("US-B", 1), ToNode("US-C", 2)>>
    /\ \E i, j, k \in 1..Len(citations) :
           /\ citations[i] = Resolved("US-B", "US-C")
           /\ citations[j] = Resolved("US-C", "US-B")
           /\ citations[k] = Resolved("US-B", "US-A")

\* no (source, target, type) triple occurs twice in the returned edge list
NoTripleTwice ==
    HasNetwork
    => \A i, j \in 1..Len(cret.edges) : cret.edges[i] = cret.edges[j] => i = j

\* Both kinds of edge run from the citing patent (source) to the cited one
\* (target): no citing-to-cited pair occurs in two edges.
NoPairTwice ==
    HasNetwork
    => \A i, j \in 1..Len(cret.edges) :
           (/\ cret.edges[i].source = cret.edges[j].source
            /\ cret.edges[i].target = cret.edges[j].target) => i = j

\* C24: in the edge list returned by get_citation_network, for every depth
\* and store, no (source, target, type) triple occurs twice, and the same
\* citing-to-cited patent pair is never added twice even when it is
\* discovered from both of its endpoints (once while expanding the citing
\* patent and once while expanding the cited patent).
C24_EdgesDeduplicated == NoTripleTwice /\ NoPairTwice

NodeNumbers == { cret.nodes[i].patent_number : i \in 1..Len(cret.nodes) }

\* the citation rows whose cited patent is not resolved
UnresolvedRows == { i \in 1..Len(citations) : IsNone(citations[i].cited) }

\* the edge is the 'cites' edge of an unresolved row: its target is the raw
\* cited_patent_number
IsRawEdge(e) ==
    /\ e.type = "cites"
    /\ \E i \in UnresolvedRows :
           /\ citations[i].citing = e.source
           /\ citations[i].cited_patent_number = e.target

\* the unresolved rows of a patent that was expanded with node budget to
\* spare are in the graph as 'cites' edges to the raw number (a patent of
\* the model citing fewer patents than FanOutLimit, every row is fetched)
RawEdgesPresent ==
    (HasNetwork /\ Len(cret.nodes) < ccall.max_nodes)
    => \A i \in UnresolvedRows :
           (\E k \in 1..Len(cret.nodes) :
                /\ cret.nodes[k].patent_number = citations[i].citing
                /\ cret.nodes[k].depth < ccall.depth)
           => \E j \in 1..Len(cret.edges) :
                  cret.edges[j] = [ source |-> citations[i].citing,
                                    target |-> citations[i].cited_patent_number,
                                    type   |-> "cites" ]

\* the raw numbers of the set are no node and no source of an edge
NeverNodeNorSource(numbers) ==
    HasNetwork
    => \A j \in 1..Len(cret.edges) :
           (IsRawEdge(cret.edges[j]) /\ cret.edges[j].target \in numbers)
           => /\ cret.edges[j].target \notin NodeNumbers
              /\ \A k \in 1..Len(cret.edges) :
                     cret.edges[k].source # cret.edges[j].target

\* every edge endpoint that is not the raw target of an unresolved citation
\* is the patent_number of a returned node
OtherEndpointsAreNodes ==
    HasNetwork
    => \A j \in 1..Len(cret.edges) :
           /\ cret.edges[j].source \in NodeNumbers
           /\ cret.edges[j].target \in NodeNumbers \/ IsRawEdge(cret.edges[j])

AnyNumber == StoredPatents \union {"EP-X"}

\* C25 (as stated): a citation whose cited patent is not resolved in the
\* local store appears as a 'cites' edge whose target is the raw
\* cited_patent_number; that number is never added as a node and is never
\* the source of an edge; every other edge endpoint is the patent_number of
\* a node of the returned node set.
C25_AsStated ==
    /\ RawEdgesPresent
    /\ NeverNodeNorSource(AnyNumber)
    /\ OtherEndpointsAreNodes

\* C25 (amended): the same, the raw number being no node and no source of an
\* edge when the store holds no patent of that number; an unresolved row
\* whose number is that of a stored patent still gives an edge to the raw
\* number, and that patent can be a node reached through other rows.
C25_UnresolvedEdges ==
    /\ RawEdgesPresent
    /\ NeverNodeNorSource(AnyNumber \ StoredPatents)
    /\ OtherEndpointsAreNodes

\* US-A cites EP-X, which the store does not hold, and US-B: the graph has
\* the edge to EP-X, and EP-X is no node
C25_Witness ==
    /\ HasNetwork
    /\ ccall.depth = 2
    /\ \E i \in UnresolvedRows : citations[i] = Unresolved("US-A", "EP-X")
    /\ \E j \in 1..Len(cret.edges) :
           cret.edges[j] = [source |-> "US-A", target |-> "EP-X", type |-> "cites"]
    /\ "US-B" \in NodeNumbers
    /\ "EP-X" \notin NodeNumbers

----------------------------------------------------------------------------
(* Properties of the patent store, checked under SpecStore *)

\* the stored expiration date the term calculator gives for a stored patent
DerivedExpiration(patent) ==
    calculate_expiration_date(patent.filing_date, patent.grant_date,
                              patent.patent_type, 0, 0, None)

\* C11: after any sequence of store_patent_batch calls, every stored
\* patent's expiration_date, when present, equals calculate_expiration_date
\* of its currently stored filing_date, grant_date and patent_type.
C11_ExpirationDerived ==
    \A n \in DOMAIN patents :
        ~IsNone(patents[n].expiration_date)
        => patents[n].expiration_date = DerivedExpiration(patents[n])

\* C12: after store_patent_batch inserts or updates a patent, its stored
\* status equals determine_patent_status of its stored expiration_date at
\* ingest time: never 'active' with an expiration date in the past, and
\* 'unknown' without an expiration date.
C12_StatusDerived ==
    \A n \in DOMAIN patents :
        Val(patents[n].status)
            = determine_patent_status(today, patents[n].expiration_date, None, None)

IsStoreCall == stcall.op = "store_patent_batch"

\* the patent_number a raw record is stored under
StoredNumber(raw) == normalize_patent_number(raw.patent_number, raw.country)

\* the cited numbers of the citation rows of a patent, in table order
CitedNumbers(rows, patent_number) ==
    LET Cites(r) == r.citing = patent_number
        own      == SelectSeq(rows, Cites)
    IN  [ i \in 1..Len(own) |-> own[i].cited_patent_number ]

\* the first 50 raw citations of the first record of the batch that is
\* stored under the number
FirstFifty(raw_patents, patent_number) ==
    LET first == CHOOSE i \in 1..Len(raw_patents) :
                     /\ StoredNumber(raw_patents[i]) = patent_number
                     /\ \A j \in 1..(i - 1) : StoredNumber(raw_patents[j]) # patent_number
        cites == IF IsNone(raw_patents[first].citations) THEN << >>
                 ELSE Val(raw_patents[first].citations)
    IN  SubSeq(cites, 1, Min(50, Len(cites)))

\* one call of store_patent_batch: the rows there were stay as they are, in
\* place; a patent that was stored gets no row; a patent the call inserts
\* gets one row per entry of the first 50 raw citations of its record
CitationsOnInsertOnly ==
    (stcall = NoCall /\ stcall' # NoCall)
    => /\ Len(citations') >= Len(citations)
       /\ SubSeq(citations', 1, Len(citations)) = citations
       /\ \A n \in DOMAIN patents :
              CitedNumbers(citations', n) = CitedNumbers(citations, n)
       /\ \A n \in DOMAIN patents' \ DOMAIN patents :
              CitedNumbers(citations', n) = FirstFifty(stcall'.raw_patents, n)
       /\ \A i \in 1..Len(citations') : citations'[i].citing \in DOMAIN patents'

\* C29: citation rows are created once and never mutated by ingestion:
\* store_patent_batch creates citation rows only when it inserts a new
\* patent, one row per entry of the first 50 raw citations, and re-ingesting
\* an already stored patent_number, whatever citations the new raw record
\* carries, leaves the stored citation rows unchanged.
C29_CitationsImmutable == [][CitationsOnInsertOnly]_vars

\* a stored patent that has 50 citation rows, from a record of 51, is
\* ingested again with a record of two citations: it is updated and keeps
\* its 50 rows
C29_Witness ==
    /\ IsStoreCall
    /\ Len(stcall.raw_patents) = 1
    /\ Len(OrEmpty(stcall.raw_patents[1].citations)) = 2
    /\ stret.updated = 1
    /\ stret.inserted = 0
    /\ stret.flushed
    /\ Len(CitedNumbers(citations, StoredNumber(stcall.raw_patents[1]))) = 50
    /\ Len(citations) = 50

---------------------------------------------------------------------------
(* Properties of the rate limiter, checked under SpecLimiter *)

\* the acquisitions completed inside the window that ends at time now
InWindow(now) ==
    { i \in 1..Len(completed) : completed[i] > now - limiter.time_window }

\* C18: for a RateLimiter with max_requests >= 1 and sequential or
\* concurrent callers of acquire(), the (n + max_requests)-th completed
\* acquire never completes earlier than time_window after the n-th, so at
\* most max_requests complete in any span shorter than time_window; and a
\* caller sleeps only when max_requests acquisitions lie inside the window.
C18_RateLimit ==
    /\ \A n \in 1..Len(completed) :
           n + limiter.max_requests <= Len(completed)
           => completed[n + limiter.max_requests] >= completed[n] + limiter.time_window
    /\ \A c \in Callers :
           lpc[c] = "sleeping"
           => Cardinality(InWindow(lnow[c])) >= limiter.max_requests

\* two callers, a limit of 2 per 3 time units, five acquisitions completed:
\* the third had to wait for time 3 and the fifth for time 6
C18_Witness ==
    /\ limiter.max_requests = 2
    /\ limiter.time_window = 3
    /\ Len(completed) >= 5
    /\ completed[1] = 0
    /\ completed[2] = 0
    /\ completed[3] = 3
    /\ completed[5] = 6
    /\ \E c \in Callers : lpc[c] = "sleeping"

---------------------------------------------------------------------------
(* Properties of the ingestion jobs, checked under SpecIngestion *)

\* the background task of a job has finished
TaskFinished(j) ==
    /\ ~IsNone(jobs[j].celery_task_id)
    /\ tasks[Val(jobs[j].celery_task_id)].state \in {"SUCCESS", "FAILURE"}

\* at most one job per source is pending or running
OneActiveJobPerSource == \A s \in Sources : ActiveCount(jobs, s) <= 1

\* a job recorded as running whose task has finished reaches a terminal status
RunningJobsTerminate ==
    \A j \in 1..MaxJobs :
        (j <= Len(jobs) /\ jobs[j].status = "running" /\ TaskFinished(j))
            ~> (j <= Len(jobs) /\ jobs[j].status \in {"completed", "failed"})

\* C30: every ingestion job that trigger_ingestion records as 'running' for
\* a source eventually reaches a terminal status ('completed' or 'failed')
\* once its background ingest task finishes, so that a later
\* trigger_ingestion for the same source is eventually accepted instead of
\* being rejected with 409; at every moment at most one job per source is
\* 'pending' or 'running'.
C30_JobsTerminate == RunningJobsTerminate /\ []OneActiveJobPerSource

=============================================================================
